---- MODULE Spec2Model ----
(***************************************************************************)
(* Resilience layer of the USPTO Enriched Citation MCP server:             *)
(*   shared/circuit_breaker.py  CircuitBreaker (CLOSED / OPEN / HALF_OPEN) *)
(*   util/retry.py              retry_async, calculate_backoff             *)
(*   util/rate_limiter.py       TokenBucket, RateLimiter                   *)
(*                                                                         *)
(* Time is a discrete clock `now`.  Token levels are fixed-point numbers   *)
(* with TokenScale units per token.                                        *)
(***************************************************************************)
EXTENDS Integers, Sequences, FiniteSets, TLC

\* ---------------------------------------------------------------- bounds
MaxTime == 4
NumTasks == 2
MaxFailureThreshold == 2
MaxSuccessThreshold == 2
RecoveryTimeout == 2
MaxMaxAttempts == 2
MaxBurst == 2
MaxRate == 1
MaxTokens == 2
MaxSkew == 1
MaxRequests == 4
TokenScale == 2
NumKeys == 3
MaxCacheSize == 2
MaxCacheOps == 4
MaxCacheTime == 2
MaxTtl == 1
NumQueries == 1
MaxCalls == 5
MaxClientTime == 1
MaxFieldsTime == 2
MaxStrLen == 1
MaxArgs == 2
MaxInt == 1
MaxConsumes == 2
MaxBucketTime == 1
MaxAttempt == 4
MaxBaseDelay == 2
MaxExponentialBase == 3
MaxMaxDelay == 9

\* ------------------------------------------------------ program constants
\* uspto_api_breaker, the pre-configured breaker of the client
UsptoFailureThreshold == 3
UsptoSuccessThreshold == 2
\* @retry_async(max_attempts=3, base_delay=1.0, max_delay=30.0) on the client
base_delay == 1
max_delay == 30
exponential_base == 2
RetryMaxAttempts == 3
MaxKeyLength == 200
\* get_fields_cache(ttl_seconds=fields_cache_ttl, max_size=10)
FieldsCacheMaxSize == 10
\* MAX_RESPONSE_SIZE_BYTES, in MB
MAX_RESPONSE_SIZE_BYTES == 50

Tasks == 1..NumTasks
NoTask == 0
None == -1

Min(a, b) == IF a <= b THEN a ELSE b

RECURSIVE Pow(_, _)
Pow(b, e) == IF e = 0 THEN 1 ELSE b * Pow(b, e - 1)

\* --------------------------------------------------------------- exceptions
RetryableExceptions == {"APIConnectionError", "APITimeoutError",
                        "APIUnavailableError", "RateLimitError",
                        "ConnectionError", "TimeoutError"}

\* what the wrapped operation may raise: a retryable exception of the
\* client, a retryable builtin, a non-retryable exception
Exceptions == {"APIConnectionError", "TimeoutError", "ValidationError"}

\* expected_exception of uspto_api_breaker: the types caught by the first
\* except clause of CircuitBreaker.call
expected_exception == {"ConnectionError", "TimeoutError", "HTTPError"}

is_retryable_error(e, retryable_exceptions) == e \in retryable_exceptions

\* line 39 without the cap
exponential_delay_NoCap(attempt, bd, md, eb) == bd * Pow(eb, attempt)

\* line 39: delay = min(base_delay * (exponential_base**attempt), max_delay)
exponential_delay(attempt, bd, md, eb) == Min(bd * Pow(eb, attempt), md)

\* the delays calculate_backoff(attempt, base_delay, max_delay,
\* exponential_base, jitter) may return: the capped exponential delay, or
\* with jitter any value of [0, delay] (random.uniform)
backoff(attempt, bd, md, eb, jitter) ==
    IF jitter THEN 0..exponential_delay(attempt, bd, md, eb)
    ELSE {exponential_delay(attempt, bd, md, eb)}

\* the wrapper counts its attempts from 1 when it asks for the delay
calculate_backoff_OneIndexed(attempt, jitter) ==
    backoff(attempt + 1, base_delay, max_delay, exponential_base, jitter)

\* calculate_backoff as retry_async.wrapper of the client calls it
calculate_backoff(attempt, jitter) ==
    backoff(attempt, base_delay, max_delay, exponential_base, jitter)

VARIABLES
    now,                 \* the clock (time.time / time.monotonic)
    \* CircuitBreaker
    failure_threshold, recovery_timeout, success_threshold,
    state, failure_count, success_count, last_failure_time,
    lock, waiters,       \* asyncio.Lock: holder and FIFO of waiting tasks
    \* retry_async.wrapper, of the call that holds the lock
    max_attempts, attempt, wake_at,
    pc,                  \* position of each task
    \* history of the call in flight and of the last finished call
    entry, invoked, slept, excs, last, streak, from_closed, opened_at,
    \* RateLimiter
    tokens_per_tick, burst_size, global_bucket, buckets,
    total_requests, rejected_requests, lastAcq,
    \* a TokenBucket of its own, and the task inside wait_for_token
    bucket, wpc, wn, wwake,
    \* history of the bucket: grants per clock reading, last consume, and
    \* last get_wait_time since that consume
    granted, lastConsume, lastWait,
    \* LRUCache: max_size, _cache (an OrderedDict, least recently used
    \* first), _hits, _misses
    lru_max_size, lru_cache, lru_hits, lru_misses,
    \* history of the LRUCache: operations so far, the operation at which
    \* each key was last read or written, the last operation
    lru_ops, lru_used, lastLru,
    \* TTLCache: default_ttl, max_size, _cache (a dict, in insertion order),
    \* _hits, _misses
    default_ttl, ttl_max_size, ttl_cache, ttl_hits, ttl_misses,
    \* history of the TTLCache: operations so far, the last operation
    ttl_ops, lastTtl,
    \* EnrichedCitationClient: enable_cache; fields_cache is the TTLCache and
    \* search_cache the LRUCache above
    enable_cache,
    req,                 \* the request of each task's call in progress
    \* history: calls so far, the call in flight, the last finished call
    \* and the value the last successful get_fields put into fields_cache
    ncalls, cur, lastClient, fields_stored,
    \* threads inside TokenBucket.consume on `bucket`: the holder of
    \* self.lock, the position and locals of each thread; history: consume
    \* calls so far and the token units they handed out
    tlock, th, tcalls, taken,
    \* history of calculate_backoff: the last call and its result
    bo,
    \* history of generate_cache_key: two calls and the keys they returned
    ck

cbvars == <<failure_threshold, recovery_timeout, success_threshold,
            state, failure_count, success_count, last_failure_time,
            lock, waiters, max_attempts, attempt, wake_at, pc,
            entry, invoked, slept, excs, last, streak, from_closed,
            opened_at>>
rlvars == <<tokens_per_tick, burst_size, global_bucket, buckets,
            total_requests, rejected_requests, lastAcq>>
tbvars == <<bucket, wpc, wn, wwake, granted, lastConsume, lastWait>>
lruvars == <<lru_max_size, lru_cache, lru_hits, lru_misses, lru_ops,
             lru_used, lastLru>>
ttlvars == <<default_ttl, ttl_max_size, ttl_cache, ttl_hits, ttl_misses,
             ttl_ops, lastTtl>>
clvars == <<enable_cache, req, ncalls, cur, lastClient, fields_stored>>
thvars == <<tlock, th, tcalls, taken>>
extvars == <<tbvars, lruvars, ttlvars, clvars, thvars, bo, ck>>
vars == <<now, cbvars, rlvars, extvars>>

\* ------------------------------------------------------------ TokenBucket
capacity == burst_size * TokenScale

\* TokenBucket.__init__: starts full
NewBucket(t) == [tokens |-> capacity, last_update |-> t]

\* the refill of consume / get_wait_time
\* a refill that forgets the cap
Refilled_NoCap(b, t) == b.tokens + (t - b.last_update) * tokens_per_tick

Refilled(b, t) == Min(capacity, b.tokens + (t - b.last_update) * tokens_per_tick)

\* TokenBucket.consume at clock reading t
ConsumeOk(b, n, t) == Refilled(b, t) >= n * TokenScale

\* a consume that does not move last_update: elapsed time is credited again
Consume_KeepsClock(b, n, t) ==
    [tokens |-> IF ConsumeOk(b, n, t) THEN Refilled(b, t) - n * TokenScale
                ELSE Refilled(b, t),
     last_update |-> b.last_update]

\* a failed consume that takes what is there
Consume_Drains(b, n, t) ==
    [tokens |-> IF ConsumeOk(b, n, t) THEN Refilled(b, t) - n * TokenScale
                ELSE 0,
     last_update |-> t]

Consume(b, n, t) ==
    [tokens |-> IF ConsumeOk(b, n, t) THEN Refilled(b, t) - n * TokenScale
                ELSE Refilled(b, t),
     last_update |-> t]

Endpoints == {"get_fields", "search_records"}
NoBucket == [tokens |-> None, last_update |-> None]
NoAcq == [valid |-> FALSE, endpoint |-> "", n |-> 0, result |-> FALSE,
          g_pre |-> NoBucket, e_pre |-> NoBucket, others |-> <<>>,
          t1 |-> 0, t2 |-> 0]

\* --------------------------------------------------------- CircuitBreaker
Snapshot == [state |-> state, failure_count |-> failure_count,
             success_count |-> success_count,
             last_failure_time |-> last_failure_time, time |-> now]
NoSnapshot == [state |-> "", failure_count |-> 0, success_count |-> 0,
               last_failure_time |-> None, time |-> 0]
NoCall == [kind |-> "none", pre |-> NoSnapshot,
           invoked |-> 0, slept |-> 0, exc |-> "", excs |-> <<>>, time |-> 0]

\* the reset is attempted one tick early
should_attempt_reset_Early ==
    IF last_failure_time = None THEN FALSE
    ELSE now - last_failure_time >= recovery_timeout - 1

\* the reset is attempted only after more than recovery_timeout
should_attempt_reset_Late ==
    IF last_failure_time = None THEN FALSE
    ELSE now - last_failure_time > recovery_timeout

should_attempt_reset ==
    IF last_failure_time = None THEN FALSE
    ELSE now - last_failure_time >= recovery_timeout

\* the transition to HALF_OPEN keeps the successes counted before
SuccessCountAtInvoke_Carried == success_count

\* lines 110-114: success_count after the first check, 0 when the call
\* takes the breaker from OPEN to HALF_OPEN
SuccessCountAtInvoke == IF state = "OPEN" THEN 0 ELSE success_count

\* state after the two checks that precede the invocation
StateAtInvoke ==
    LET s1 == IF state = "OPEN" THEN "HALF_OPEN" ELSE state
        c1 == SuccessCountAtInvoke
    IN  IF s1 = "HALF_OPEN" /\ c1 >= success_threshold THEN "CLOSED" ELSE s1

CbInit ==
    /\ state = "CLOSED"
    /\ failure_count = 0
    /\ success_count = 0
    /\ last_failure_time = None
    /\ lock = NoTask
    /\ waiters = <<>>
    /\ attempt = 0
    /\ wake_at = 0
    /\ pc = [t \in Tasks |-> "idle"]
    /\ entry = NoSnapshot
    /\ invoked = 0
    /\ slept = 0
    /\ excs = <<>>
    /\ last = NoCall
    /\ streak = 0
    /\ from_closed = FALSE
    /\ opened_at = None

RlInit ==
    /\ global_bucket = NewBucket(0)
    /\ buckets = [e \in {} |-> NoBucket]
    /\ total_requests = 0
    /\ rejected_requests = 0
    /\ lastAcq = NoAcq

NoConsume == [valid |-> FALSE, n |-> 0, result |-> FALSE, pre |-> NoBucket,
              time |-> 0, by |-> ""]
NoWait == [valid |-> FALSE, n |-> 0, needed |-> 0]

TbInit ==
    /\ bucket = NewBucket(0)
    /\ wpc = "idle"
    /\ wn = 0
    /\ wwake = 0
    /\ granted = [t \in 0..MaxTime |-> 0]
    /\ lastConsume = NoConsume
    /\ lastWait = NoWait

\* ------------------------------------------------------------ cache values
Keys == 1..NumKeys
Bodies == {"docs", "empty"}
\* a response body, with or without the _cache_status marker of degraded mode
Values == [body : Bodies, degraded : BOOLEAN]
UpstreamValues == [body : Bodies, degraded : {FALSE}]
\* what a cache lookup that misses returns (None)
NoValue == [body |-> "None", degraded |-> FALSE]
\* the one body the fields endpoint answers with
FieldsValues == {[body |-> "docs", degraded |-> FALSE]}

\* CacheEntry, for the LRUCache always with expires_at = None.  The field
\* last_accessed is written and never read: it is left out.
CacheEntry(k, v, created, expires) ==
    [key |-> k, value |-> v, created_at |-> created, expires_at |-> expires,
     hit_count |-> 0]

\* CacheEntry.access
access(e) == [e EXCEPT !.hit_count = @ + 1]

\* position of key k in an ordered dict, 0 when absent
IndexOf(c, k) ==
    IF \E i \in 1..Len(c) : c[i].key = k
    THEN CHOOSE i \in 1..Len(c) : c[i].key = k
    ELSE 0

KeysOf(c) == {c[i].key : i \in 1..Len(c)}

\* dict without key k
Without(c, k) == SelectSeq(c, LAMBDA e : e.key # k)

NoOp == [op |-> "none", key |-> 0, pre |-> <<>>, result |-> NoValue,
         stale |-> FALSE, allow_stale |-> FALSE, hits |-> 0, misses |-> 0,
         time |-> 0]

\* LRUCache.__init__
LruInit ==
    /\ lru_cache = <<>>
    /\ lru_hits = 0
    /\ lru_misses = 0
    /\ lru_ops = 0
    /\ lru_used = [k \in Keys |-> 0]
    /\ lastLru = NoOp

\* TTLCache.__init__
TtlInit ==
    /\ ttl_cache = <<>>
    /\ ttl_hits = 0
    /\ ttl_misses = 0
    /\ ttl_ops = 0
    /\ lastTtl = NoOp

\* ------------------------------------------------------- client requests
\* search criteria: 0 is a blank string
Queries == 0..NumQueries
NoRequest == [endpoint |-> "", criteria |-> 0]
Requests == {[endpoint |-> "get_fields", criteria |-> 0]}
            \cup [endpoint : {"search_records"}, criteria : Queries]

\* an HTTP response as the client sees it: a transport exception, or status,
\* Content-Type (split in chunks: the media type, then what follows it),
\* Content-Length header (None when absent), size of the content in MB, body
NoResponse == [exc |-> "none", status |-> 0, content_type |-> <<>>,
               content_length |-> None, size |-> 0, body |-> ""]
OkResponse == [exc |-> "", status |-> 200,
               content_type |-> <<"application/json">>,
               content_length |-> 1, size |-> 1, body |-> "docs"]
\* the responses the upstream is made to give: the good one, and the ones
\* that differ from it in one respect
Responses ==
    {OkResponse,
     [OkResponse EXCEPT !.body = "empty"],
     [OkResponse EXCEPT !.body = "error"],
     [OkResponse EXCEPT !.exc = "TimeoutException"],
     [OkResponse EXCEPT !.status = 500],
     [OkResponse EXCEPT !.content_type = <<>>],
     [OkResponse EXCEPT !.content_type = <<"application/json", "p">>],
     [OkResponse EXCEPT !.content_length = None,
                        !.size = MAX_RESPONSE_SIZE_BYTES + 1],
     [OkResponse EXCEPT !.content_length = MAX_RESPONSE_SIZE_BYTES + 1,
                        !.size = MAX_RESPONSE_SIZE_BYTES + 1]}

NoCur == [endpoint |-> "", key |-> 0, http |-> 0, acquires |-> 0,
          acq_false |-> 0, acq |-> "none", resp |-> NoResponse,
          fresh_pre |-> FALSE, entry_pre |-> NoValue]
\* failed: the operations of the failing calls since the last call that
\* returned from the wrapped function
NoClientCall == [kind |-> "none", value |-> NoValue, exc |-> "",
                 rejected |-> FALSE, stored |-> FALSE, call |-> NoCur,
                 failed |-> {}]

\* ------------------------------------------- threads inside consume
\* a thread outside consume
NoThread == [pc |-> "idle", n |-> 0, ok |-> FALSE, waited |-> FALSE]

ThInit ==
    /\ tlock = NoTask
    /\ th = [t \in Tasks |-> NoThread]
    /\ tcalls = 0
    /\ taken = 0

\* ------------------------------------------------------ generate_cache_key
\* a call generate_cache_key(prefix, *args, **kwargs). Strings are sequences
\* of characters; an argument is a str (its characters in s), an int (its
\* value in i) or None; kwargs are in the order of the call, with distinct
\* names
KeyCalls ==
    LET Strings == UNION {[1..n -> {"1", ":"}] : n \in 0..MaxStrLen}
        StrArgs == [type : {"str"}, s : Strings, i : {0}]
        IntArgs == [type : {"int"}, s : {<<>>}, i : 1..MaxInt]
        NoneArg == [type |-> "None", s |-> <<>>, i |-> 0]
        KwArgs ==
            {kw \in UNION {[1..n -> [name : {"j", "k"},
                                     value : IntArgs \cup {NoneArg}]] :
                              n \in 0..2} :
                \A i \in 1..Len(kw) : \A j \in 1..Len(kw) :
                    i # j => kw[i].name # kw[j].name}
    IN  [prefix : {<<"f">>, <<"s">>},
         args : UNION {[1..n -> StrArgs \cup IntArgs] : n \in 0..MaxArgs},
         kwargs : KwArgs]
NoKeyCalls == [valid |-> FALSE, a |-> <<>>, b |-> <<>>, ka |-> <<>>,
               kb |-> <<>>]

\* generate_cache_key(prefix, *args, **kwargs)
generate_cache_key(c) ==
    LET \* str(i) of a positive int
        RECURSIVE IntStr(_)
        IntStr(i) ==
            LET digit == <<"0", "1", "2", "3", "4", "5", "6", "7", "8", "9">>
            IN  IF i < 10 THEN <<digit[i + 1]>>
                ELSE IntStr(i \div 10) \o <<digit[(i % 10) + 1]>>
        \* lines 375-379 and 384-387: str(arg) of a str or int,
        \* json.dumps(arg) of anything else
        ArgText(v) ==
            IF v.type = "str" THEN v.s
            ELSE IF v.type = "int" THEN IntStr(v.i)
            ELSE <<"n", "u", "l", "l">>
        \* sorted(kwargs.keys()) of all the names there are
        KwNames == <<"j", "k">>
        KwHas(name) == \E i \in 1..Len(c.kwargs) : c.kwargs[i].name = name
        KwValue(name) ==
            c.kwargs[CHOOSE i \in 1..Len(c.kwargs) :
                        c.kwargs[i].name = name].value
        \* lines 382-387: the parts k=v for the names from the i-th on
        RECURSIVE KwParts(_)
        KwParts(i) ==
            IF i > Len(KwNames) THEN <<>>
            ELSE IF KwHas(KwNames[i])
            THEN <<<<KwNames[i], "=">> \o ArgText(KwValue(KwNames[i]))>>
                    \o KwParts(i + 1)
            ELSE KwParts(i + 1)
        \* ":".join(key_parts)
        RECURSIVE Join(_)
        Join(parts) ==
            IF Len(parts) = 1 THEN parts[1]
            ELSE parts[1] \o <<":">> \o Join(Tail(parts))
        key_str == Join(<<c.prefix>>
                          \o [i \in 1..Len(c.args) |-> ArgText(c.args[i])]
                          \o KwParts(1))
    IN  \* lines 391-394: a long key is replaced by prefix:hash:<digest>
        IF Len(key_str) > MaxKeyLength
        THEN c.prefix \o <<":", "h", "a", "s", "h", ":">>
                \o <<<<"sha256", key_str>>>>
        ELSE key_str

\* ------------------------------------------------------ calculate_backoff
NoBackoff == [valid |-> FALSE, attempt |-> 0, base_delay |-> 0,
              max_delay |-> 0, exponential_base |-> 0, jitter |-> FALSE,
              delay |-> 0, prev |-> 0]

\* EnrichedCitationClient.__init__, before enable_cache is chosen
ClInit ==
    /\ req = [t \in Tasks |-> NoRequest]
    /\ ncalls = 0
    /\ cur = NoCur
    /\ lastClient = NoClientCall
    /\ fields_stored = NoValue

\* the components next to the breaker and the rate limiter, unused
ComponentsInit ==
    /\ TbInit
    /\ lru_max_size = MaxCacheSize
    /\ LruInit
    /\ default_ttl = MaxTtl
    /\ ttl_max_size = MaxCacheSize
    /\ TtlInit
    /\ enable_cache = TRUE
    /\ ClInit
    /\ ThInit

ExtInit ==
    /\ ComponentsInit
    /\ bo = NoBackoff
    /\ ck = NoKeyCalls

Init ==
    /\ now = 0
    /\ failure_threshold \in 1..MaxFailureThreshold
    /\ success_threshold \in 1..MaxSuccessThreshold
    /\ recovery_timeout = RecoveryTimeout
    /\ max_attempts \in 1..MaxMaxAttempts
    /\ tokens_per_tick = 1
    /\ burst_size = 1
    /\ CbInit
    /\ RlInit
    /\ ExtInit

\* the body of `async with self._lock:` up to the first suspension: either
\* the call is rejected, or the wrapped function starts its first attempt
Enter(t) ==
    IF state = "OPEN" /\ ~should_attempt_reset
    THEN \* raise CircuitBreakerError; the lock is released on the way out
         /\ last' = [kind |-> "rejected", pre |-> Snapshot,
                     invoked |-> 0, slept |-> 0, exc |-> "CircuitBreakerError",
                     excs |-> <<>>, time |-> now]
         /\ pc' = [pc EXCEPT ![t] = "idle"]
         /\ lock' = NoTask
         /\ UNCHANGED <<state, failure_count, success_count, last_failure_time,
                        attempt, wake_at, entry, invoked, slept, excs, streak,
                        from_closed, opened_at>>
    ELSE /\ state' = StateAtInvoke
         /\ success_count' = SuccessCountAtInvoke
         /\ failure_count' = IF StateAtInvoke = "CLOSED" /\ state # "CLOSED"
                             THEN 0 ELSE failure_count
         /\ lock' = t
         /\ pc' = [pc EXCEPT ![t] = "invoking"]
         /\ attempt' = 0
         /\ invoked' = 1
         /\ slept' = 0
         /\ excs' = <<>>
         /\ entry' = Snapshot
         /\ last' = NoCall
         /\ UNCHANGED <<last_failure_time, wake_at, streak, from_closed,
                        opened_at>>

\* a lock that is free for everybody at any time
lock_is_free_Always == TRUE

\* asyncio.Lock.acquire returns at once: the lock is not held and nobody
\* waits for it
lock_is_free == lock = NoTask /\ waiters = <<>>

\* CircuitBreaker.call: a task reaches `async with self._lock`
BeginCall(t) ==
    /\ pc[t] = "idle"
    /\ IF lock_is_free
       THEN Enter(t) /\ UNCHANGED waiters
       ELSE /\ waiters' = Append(waiters, t)
            /\ pc' = [pc EXCEPT ![t] = "waiting"]
            /\ UNCHANGED <<state, failure_count, success_count,
                           last_failure_time, lock, attempt, wake_at,
                           entry, invoked, slept, excs, last, streak,
                           from_closed, opened_at>>
    /\ UNCHANGED <<now, failure_threshold, recovery_timeout,
                   success_threshold, max_attempts, rlvars, extvars>>

\* the first waiter obtains the released lock
Resume(t) ==
    /\ pc[t] = "waiting"
    /\ lock = NoTask
    /\ waiters # <<>>
    /\ Head(waiters) = t
    /\ waiters' = Tail(waiters)
    /\ Enter(t)
    /\ UNCHANGED <<now, failure_threshold, recovery_timeout,
                   success_threshold, max_attempts, rlvars, extvars>>

\* a success in HALF_OPEN that is not counted
OnSuccess_ProbeNotCounted(t) ==
    /\ failure_count' = IF state = "CLOSED" THEN 0 ELSE failure_count
    /\ last' = [kind |-> "success", pre |-> entry,
                invoked |-> invoked, slept |-> slept, exc |-> "",
                excs |-> excs, time |-> now]
    /\ streak' = 0
    /\ UNCHANGED <<state, success_count, last_failure_time, from_closed,
                   opened_at>>

\* a success in CLOSED that forgets to reset failure_count
OnSuccess_KeepsCount(t) ==
    /\ success_count' = IF state = "HALF_OPEN" THEN success_count + 1
                        ELSE success_count
    /\ failure_count' = failure_count
    /\ last' = [kind |-> "success", pre |-> entry,
                invoked |-> invoked, slept |-> slept, exc |-> "",
                excs |-> excs, time |-> now]
    /\ streak' = 0
    /\ UNCHANGED <<state, last_failure_time, from_closed, opened_at>>

\* lines 134-143: the wrapped function returned
OnSuccess(t) ==
    /\ success_count' = IF state = "HALF_OPEN" THEN success_count + 1
                        ELSE success_count
    /\ failure_count' = IF state = "CLOSED" THEN 0 ELSE failure_count
    /\ last' = [kind |-> "success", pre |-> entry,
                invoked |-> invoked, slept |-> slept, exc |-> "",
                excs |-> excs, time |-> now]
    /\ streak' = 0
    /\ UNCHANGED <<state, last_failure_time, from_closed, opened_at>>

\* lines 145-185: the wrapped function raised e (both except clauses)
\* the threshold has to be exceeded, not reached
FailureState_Exceeds ==
    IF state = "HALF_OPEN" THEN "OPEN"
    ELSE IF state = "CLOSED" /\ failure_count + 1 > failure_threshold
         THEN "OPEN" ELSE state

FailureState ==
    IF state = "HALF_OPEN" THEN "OPEN"
    ELSE IF state = "CLOSED" /\ failure_count + 1 >= failure_threshold
         THEN "OPEN" ELSE state

\* every attempt of the retried operation counts as a failure
OnFailure_PerAttempt(t, e) ==
    /\ failure_count' = failure_count + invoked
    /\ last_failure_time' = now
    /\ state' = FailureState
    /\ opened_at' = IF FailureState = "OPEN" THEN now ELSE opened_at
    /\ last' = [kind |-> "failure", pre |-> entry,
                invoked |-> invoked, slept |-> slept, exc |-> e,
                excs |-> Append(excs, e), time |-> now]
    /\ streak' = streak + 1
    /\ from_closed' = IF streak = 0
                      THEN entry.state = "CLOSED" /\ entry.failure_count = 0
                      ELSE from_closed
    /\ UNCHANGED success_count

\* the body both except clauses share: count the failure, record its time,
\* open the circuit from HALF_OPEN or at the threshold, re-raise
CountFailure(t, e) ==
    /\ failure_count' = failure_count + 1
    /\ last_failure_time' = now
    /\ state' = FailureState
    /\ opened_at' = IF FailureState = "OPEN" THEN now ELSE opened_at
    /\ last' = [kind |-> "failure", pre |-> entry,
                invoked |-> invoked, slept |-> slept, exc |-> e,
                excs |-> Append(excs, e), time |-> now]
    /\ streak' = streak + 1
    /\ from_closed' = IF streak = 0
                      THEN entry.state = "CLOSED" /\ entry.failure_count = 0
                      ELSE from_closed
    /\ UNCHANGED success_count

\* only the expected exceptions count: any other passes through
OnFailure_ExpectedOnly(t, e) ==
    IF e \in expected_exception
    THEN CountFailure(t, e)
    ELSE /\ last' = [kind |-> "failure", pre |-> entry,
                     invoked |-> invoked, slept |-> slept, exc |-> e,
                     excs |-> Append(excs, e), time |-> now]
         /\ UNCHANGED <<failure_count, last_failure_time, state, opened_at,
                        streak, from_closed, success_count>>

\* `except self.expected_exception` (lines 145-164), then `except
\* Exception` (lines 166-185)
OnFailure(t, e) ==
    IF e \in expected_exception
    THEN CountFailure(t, e)
    ELSE CountFailure(t, e)

Release(t) ==
    /\ lock' = NoTask
    /\ pc' = [pc EXCEPT ![t] = "idle"]
    /\ attempt' = 0
    /\ wake_at' = 0
    /\ entry' = NoSnapshot
    /\ invoked' = 0
    /\ slept' = 0
    /\ excs' = <<>>

\* one attempt of retry_async.wrapper returns a result
AttemptSucceeds(t) ==
    /\ pc[t] = "invoking"
    /\ OnSuccess(t)
    /\ Release(t)
    /\ UNCHANGED <<now, failure_threshold, recovery_timeout,
                   success_threshold, max_attempts, waiters, rlvars, extvars>>

\* the exception is not retryable, or it was the last attempt: it leaves
\* the retry wrapper and reaches the breaker
\* the exception is not classified: every exception is retried
GivesUp_RetriesAll(e) == attempt >= max_attempts - 1

GivesUp(e) ==
    \/ ~is_retryable_error(e, RetryableExceptions)
    \/ attempt >= max_attempts - 1

\* one attempt of retry_async.wrapper raises e
AttemptFails(t, e) ==
    /\ pc[t] = "invoking"
    /\ IF GivesUp(e)
       THEN /\ OnFailure(t, e)
            /\ Release(t)
       ELSE /\ \E d \in calculate_backoff(attempt, TRUE) : wake_at' = now + d
            /\ pc' = [pc EXCEPT ![t] = "sleeping"]
            /\ slept' = slept + 1
            /\ excs' = Append(excs, e)
            /\ UNCHANGED <<state, failure_count, success_count,
                           last_failure_time, lock, attempt, entry, invoked,
                           last, streak, from_closed, opened_at>>
    /\ UNCHANGED <<now, failure_threshold, recovery_timeout,
                   success_threshold, max_attempts, waiters, rlvars, extvars>>

\* asyncio.sleep(delay) is over: the loop starts the next attempt
NextAttempt(t) ==
    /\ pc[t] = "sleeping"
    /\ now >= wake_at
    /\ attempt' = attempt + 1
    /\ invoked' = invoked + 1
    /\ pc' = [pc EXCEPT ![t] = "invoking"]
    /\ UNCHANGED <<now, failure_threshold, recovery_timeout, success_threshold,
                   state, failure_count, success_count, last_failure_time,
                   lock, waiters, max_attempts, wake_at, entry, slept, excs,
                   last, streak, from_closed, opened_at, rlvars, extvars>>

Tick ==
    /\ now < MaxTime
    /\ now' = now + 1
    /\ UNCHANGED <<cbvars, rlvars, extvars>>

Next ==
    \/ Tick
    \/ \E t \in Tasks : BeginCall(t)
    \/ \E t \in Tasks : Resume(t)
    \/ \E t \in Tasks : AttemptSucceeds(t)
    \/ \E t \in Tasks, e \in Exceptions : AttemptFails(t, e)
    \/ \E t \in Tasks : NextAttempt(t)

Spec == Init /\ [][Next]_vars

\* ------------------------------------------------- recovery of the breaker
\* the wrapped operation may fail up to this time and succeeds from then
\* on; the clock still covers the longest backoff and a recovery_timeout
\* after the last failure
FailuresUntil == MaxTime - RecoveryTimeout

AttemptFailsEarly(t, e) ==
    /\ now <= FailuresUntil
    /\ AttemptFails(t, e)

NextLive ==
    \/ Tick
    \/ \E t \in Tasks : BeginCall(t)
    \/ \E t \in Tasks : Resume(t)
    \/ \E t \in Tasks : AttemptSucceeds(t)
    \/ \E t \in Tasks, e \in Exceptions : AttemptFailsEarly(t, e)
    \/ \E t \in Tasks : NextAttempt(t)

\* time advances, calls keep arriving, and the event loop runs every task
\* that is ready: the waiter of a released lock, an operation that returns,
\* a sleep that is over
Fairness ==
    /\ WF_vars(Tick)
    /\ WF_vars(\E t \in Tasks : BeginCall(t))
    /\ WF_vars(\E t \in Tasks : Resume(t))
    /\ WF_vars(\E t \in Tasks : AttemptSucceeds(t))
    /\ WF_vars(\E t \in Tasks : NextAttempt(t))

\* uspto_api_breaker and the retry_async of the client's operations
InitLive ==
    /\ now = 0
    /\ failure_threshold = UsptoFailureThreshold
    /\ success_threshold = UsptoSuccessThreshold
    /\ recovery_timeout = RecoveryTimeout
    /\ max_attempts = RetryMaxAttempts
    /\ tokens_per_tick = 1
    /\ burst_size = 1
    /\ CbInit
    /\ RlInit
    /\ ExtInit

SpecLive == InitLive /\ [][NextLive]_vars /\ Fairness

\* ------------------------------------------------------------ RateLimiter
\* RateLimiter.__init__ with the client's breaker left in its initial state
InitRL ==
    /\ now = 0
    /\ failure_threshold = UsptoFailureThreshold
    /\ success_threshold = UsptoSuccessThreshold
    /\ recovery_timeout = RecoveryTimeout
    /\ max_attempts = RetryMaxAttempts
    /\ tokens_per_tick \in 1..MaxRate
    /\ burst_size \in 1..MaxBurst
    /\ CbInit
    /\ RlInit
    /\ ExtInit

\* get_or_create_bucket: the bucket of the endpoint, created full at clock
\* reading t when the endpoint has none
\* a new endpoint bucket starts empty
get_or_create_bucket_Empty(endpoint, t) ==
    IF endpoint \in DOMAIN buckets THEN buckets[endpoint]
    ELSE [tokens |-> 0, last_update |-> t]

get_or_create_bucket(endpoint, t) ==
    IF endpoint \in DOMAIN buckets THEN buckets[endpoint] ELSE NewBucket(t)

BucketOrNone(endpoint) ==
    IF endpoint \in DOMAIN buckets THEN buckets[endpoint] ELSE NoBucket

\* did acquire(endpoint, n) succeed, the global bucket reading the clock at
\* t1 and the endpoint bucket at t2
AcquireResult(endpoint, n, t1, t2) ==
    /\ ConsumeOk(global_bucket, n, t1)
    /\ ConsumeOk(get_or_create_bucket(endpoint, t2), n, t2)

\* RateLimiter.acquire(endpoint, n).  Each consume reads time.monotonic()
\* itself: d is how far the clock moved between the two readings.
AcquireStep(endpoint, n, d) ==
    /\ total_requests' = total_requests + 1
    /\ global_bucket' = Consume(global_bucket, n, now)
    /\ IF ~ConsumeOk(global_bucket, n, now)
       THEN /\ d = 0
            /\ rejected_requests' = rejected_requests + 1
            /\ UNCHANGED <<buckets, now>>
       ELSE /\ now' = now + d
            /\ buckets' =
                 [e \in DOMAIN buckets \cup {endpoint} |->
                    IF e = endpoint
                    THEN Consume(get_or_create_bucket(endpoint, now + d), n,
                                 now + d)
                    ELSE buckets[e]]
            /\ rejected_requests' =
                 IF ConsumeOk(get_or_create_bucket(endpoint, now + d), n,
                              now + d)
                 THEN rejected_requests ELSE rejected_requests + 1
    /\ lastAcq' = [valid |-> TRUE, endpoint |-> endpoint, n |-> n,
                   result |-> AcquireResult(endpoint, n, now, now + d),
                   g_pre |-> global_bucket, e_pre |-> BucketOrNone(endpoint),
                   others |-> [e \in DOMAIN buckets \ {endpoint} |->
                                 buckets[e]],
                   t1 |-> now, t2 |-> now + d]

\* acquire called on the limiter directly
Acquire(endpoint, n, d) ==
    /\ total_requests < MaxRequests
    /\ now + d <= MaxTime
    /\ AcquireStep(endpoint, n, d)
    /\ UNCHANGED <<cbvars, tokens_per_tick, burst_size, extvars>>

NextRL ==
    \/ Tick
    \/ \E endpoint \in Endpoints, n \in 1..MaxTokens, d \in 0..MaxSkew :
          Acquire(endpoint, n, d)

SpecRL == InitRL /\ [][NextRL]_vars

\* ------------------------------------------------- TokenBucket on its own
\* TokenBucket.__init__(rate, capacity), every other component left in its
\* initial state
InitTB ==
    /\ now = 0
    /\ failure_threshold = UsptoFailureThreshold
    /\ success_threshold = UsptoSuccessThreshold
    /\ recovery_timeout = RecoveryTimeout
    /\ max_attempts = RetryMaxAttempts
    /\ tokens_per_tick \in 1..MaxRate
    /\ burst_size \in 1..MaxBurst
    /\ CbInit
    /\ RlInit
    /\ ExtInit

\* what one consume(n) on `bucket` at the clock reading `now` does
ConsumeStep(n, who) ==
    /\ bucket' = Consume(bucket, n, now)
    /\ granted' = IF ConsumeOk(bucket, n, now)
                  THEN [granted EXCEPT ![now] = @ + n * TokenScale]
                  ELSE granted
    /\ lastConsume' = [valid |-> TRUE, n |-> n,
                       result |-> ConsumeOk(bucket, n, now),
                       pre |-> bucket, time |-> now, by |-> who]
    /\ lastWait' = NoWait

\* TokenBucket.consume(n) called directly
TBConsume(n) ==
    /\ ConsumeStep(n, "consume")
    /\ UNCHANGED <<now, cbvars, rlvars, lruvars, ttlvars, clvars, wpc, wn, wwake,
            thvars, bo, ck>>

\* get_wait_time(n) at clock reading t, in token units still missing: the
\* time returned is that number divided by tokens_per_tick
get_wait_time(b, n, t) ==
    IF Refilled(b, t) >= n * TokenScale THEN 0
    ELSE n * TokenScale - Refilled(b, t)

\* TokenBucket.get_wait_time(n): reads the bucket, stores nothing
TBGetWaitTime(n) ==
    /\ lastWait' = [valid |-> TRUE, n |-> n,
                    needed |-> get_wait_time(bucket, n, now)]
    /\ UNCHANGED <<now, cbvars, rlvars, lruvars, ttlvars, clvars, bucket, wpc, wn,
                   wwake, granted, lastConsume, thvars, bo, ck>>

\* the sleep lasts the whole wait time
SleepEnds_WholeWait(needed) ==
    {now + (needed + tokens_per_tick - 1) \div tokens_per_tick}

\* clock readings at which asyncio.sleep(min(wait_time, 1.0)) may be over, for
\* a wait of `needed` token units: a sleep shorter than one tick may or may
\* not carry the clock to its next reading
SleepEnds(needed) ==
    IF needed < tokens_per_tick THEN {now, now + 1} ELSE {now + 1}

\* one iteration of the loop of wait_for_token(n)
WaitIteration(n) ==
    /\ ConsumeStep(n, "wait_for_token")
    /\ wn' = n
    /\ IF ConsumeOk(bucket, n, now)
       THEN wpc' = "idle" /\ wwake' = 0
       ELSE /\ wpc' = "sleeping"
            /\ wwake' \in SleepEnds(get_wait_time(bucket, n, now))
    /\ UNCHANGED <<now, cbvars, rlvars, lruvars, ttlvars, clvars, thvars, bo, ck>>

\* wait_for_token(n) is called
TBWaitForToken(n) ==
    /\ wpc = "idle"
    /\ WaitIteration(n)

\* the sleep of wait_for_token is over
TBWakeUp ==
    /\ wpc = "sleeping"
    /\ now >= wwake
    /\ WaitIteration(wn)

NextTB ==
    \/ Tick
    \/ \E n \in 1..MaxTokens : TBConsume(n)
    \/ \E n \in 1..MaxTokens : TBGetWaitTime(n)
    \/ \E n \in 1..MaxTokens : TBWaitForToken(n)
    \/ TBWakeUp

SpecTB == InitTB /\ [][NextTB]_vars

\* ------------------------------------- wait_for_token without competitors
\* wait_for_token(n) is called while the clock still covers the wait
TBWaitInTime(n) ==
    /\ get_wait_time(bucket, n, now) <= (MaxTime - now) * tokens_per_tick
    /\ TBWaitForToken(n)

NextWait ==
    \/ Tick
    \/ \E n \in 1..MaxTokens : TBWaitInTime(n)
    \/ TBWakeUp

\* time advances, and the event loop resumes the waiter when its sleep is
\* over
FairnessWait == WF_vars(Tick) /\ WF_vars(TBWakeUp)

SpecWait == InitTB /\ [][NextWait]_vars /\ FairnessWait

\* ------------------------------------- TokenBucket.consume under threads
\* a bucket used by several threads at once
InitTBC ==
    /\ now = 0
    /\ failure_threshold = UsptoFailureThreshold
    /\ success_threshold = UsptoSuccessThreshold
    /\ recovery_timeout = RecoveryTimeout
    /\ max_attempts = RetryMaxAttempts
    /\ tokens_per_tick \in 1..MaxRate
    /\ burst_size \in 1..MaxBurst
    /\ CbInit
    /\ RlInit
    /\ ExtInit

\* the frame of a step of a thread inside consume
ThFrame ==
    UNCHANGED <<now, cbvars, rlvars, wpc, wn, wwake, granted, lastConsume,
                lastWait, lruvars, ttlvars, clvars, bo, ck>>

\* a thread calls consume(n) and reaches `with self.lock`
ThConsume(t, n) ==
    /\ th[t].pc = "idle"
    /\ tcalls < MaxConsumes
    /\ tcalls' = tcalls + 1
    /\ th' = [th EXCEPT ![t] = [pc |-> "acquire", n |-> n, ok |-> FALSE,
                                waited |-> tlock # NoTask]]
    /\ UNCHANGED <<bucket, tlock, taken>>
    /\ ThFrame

\* a lock that lets everybody in
lock_acquirable_Always(t) == TRUE

\* threading.Lock: only a free lock can be acquired
lock_acquirable(t) == tlock = NoTask

\* `with self.lock:` is entered
ThLock(t) ==
    /\ th[t].pc = "acquire"
    /\ lock_acquirable(t)
    /\ tlock' = t
    /\ th' = [th EXCEPT ![t].pc = "refill"]
    /\ UNCHANGED <<bucket, tcalls, taken>>
    /\ ThFrame

\* lines 55-60: the clock is read and the refilled level written back
ThRefill(t) ==
    /\ th[t].pc = "refill"
    /\ bucket' = [tokens |-> Refilled(bucket, now), last_update |-> now]
    /\ th' = [th EXCEPT ![t].pc = "check"]
    /\ UNCHANGED <<tlock, tcalls, taken>>
    /\ ThFrame

\* line 63: if self.tokens >= tokens
ThCheck(t) ==
    /\ th[t].pc = "check"
    /\ th' = [th EXCEPT ![t].ok = bucket.tokens >= th[t].n * TokenScale,
                        ![t].pc = IF bucket.tokens >= th[t].n * TokenScale
                                  THEN "subtract" ELSE "exit"]
    /\ UNCHANGED <<bucket, tlock, tcalls, taken>>
    /\ ThFrame

\* line 64: self.tokens -= tokens
ThSubtract(t) ==
    /\ th[t].pc = "subtract"
    /\ bucket' = [bucket EXCEPT !.tokens = @ - th[t].n * TokenScale]
    /\ th' = [th EXCEPT ![t].pc = "exit"]
    /\ UNCHANGED <<tlock, tcalls, taken>>
    /\ ThFrame

\* the with block is left and consume returns
ThReturn(t) ==
    /\ th[t].pc = "exit"
    /\ tlock' = NoTask
    /\ taken' = IF th[t].ok THEN taken + th[t].n * TokenScale ELSE taken
    /\ th' = [th EXCEPT ![t].pc = "idle"]
    /\ UNCHANGED <<bucket, tcalls>>
    /\ ThFrame

\* time.monotonic() moves on
BucketTick ==
    /\ now < MaxBucketTime
    /\ now' = now + 1
    /\ UNCHANGED <<cbvars, rlvars, extvars>>

NextTBC ==
    \/ BucketTick
    \/ \E t \in Tasks, n \in 1..MaxTokens : ThConsume(t, n)
    \/ \E t \in Tasks : ThLock(t)
    \/ \E t \in Tasks : ThRefill(t)
    \/ \E t \in Tasks : ThCheck(t)
    \/ \E t \in Tasks : ThSubtract(t)
    \/ \E t \in Tasks : ThReturn(t)

SpecTBC == InitTBC /\ [][NextTBC]_vars

\* --------------------------------------------------------------- LRUCache
\* LRUCache(max_size), every other component left in its initial state
InitLRU ==
    /\ now = 0
    /\ failure_threshold = UsptoFailureThreshold
    /\ success_threshold = UsptoSuccessThreshold
    /\ recovery_timeout = RecoveryTimeout
    /\ max_attempts = RetryMaxAttempts
    /\ tokens_per_tick = 1
    /\ burst_size = 1
    /\ CbInit
    /\ RlInit
    /\ TbInit
    /\ lru_max_size \in 1..MaxCacheSize
    /\ LruInit
    /\ default_ttl = MaxTtl
    /\ ttl_max_size = MaxCacheSize
    /\ TtlInit
    /\ enable_cache = TRUE
    /\ ClInit
    /\ ThInit
    /\ bo = NoBackoff
    /\ ck = NoKeyCalls

\* OrderedDict.move_to_end(key)
\* the entry stays where it is
move_to_end_Stays(c, k) == c

move_to_end(c, k) == Append(Without(c, k), c[IndexOf(c, k)])

\* the _cache after LRUCache.get(key) at clock reading t
LruGetCache(c, k, t) ==
    IF IndexOf(c, k) = 0 THEN c
    ELSE LET m == move_to_end(c, k)
         IN  [m EXCEPT ![IndexOf(m, k)] = access(@)]

\* what LRUCache.get(key) returns
LruGetValue(c, k) ==
    IF IndexOf(c, k) = 0 THEN NoValue ELSE c[IndexOf(c, k)].value

\* the _cache after LRUCache.set(key, value) at clock reading t
LruSetCache(c, k, v, t, max) ==
    IF IndexOf(c, k) # 0
    THEN LET m == move_to_end(c, k)
         IN  [m EXCEPT ![IndexOf(m, k)] = [@ EXCEPT !.value = v]]
    ELSE LET a == Append(c, CacheEntry(k, v, t, None))
         IN  IF Len(a) > max THEN Tail(a) ELSE a

\* history of one LRUCache operation
LruOp(op, k, hit) ==
    /\ lru_ops < MaxCacheOps
    /\ lru_ops' = lru_ops + 1
    /\ lru_used' = IF hit THEN [lru_used EXCEPT ![k] = lru_ops + 1]
                   ELSE lru_used
    /\ lastLru' = [NoOp EXCEPT !.op = op, !.key = k, !.pre = lru_cache,
                               !.result = LruGetValue(lru_cache, k),
                               !.time = now]

\* LRUCache.get(key)
LruGet(k) ==
    /\ LruOp("get", k, k \in KeysOf(lru_cache))
    /\ lru_cache' = LruGetCache(lru_cache, k, now)
    /\ lru_hits' = IF k \in KeysOf(lru_cache) THEN lru_hits + 1 ELSE lru_hits
    /\ lru_misses' = IF k \in KeysOf(lru_cache) THEN lru_misses
                     ELSE lru_misses + 1
    /\ UNCHANGED <<now, cbvars, rlvars, tbvars, ttlvars, clvars, lru_max_size,
            thvars, bo, ck>>

\* LRUCache.set(key, value)
LruSet(k, v) ==
    /\ LruOp("set", k, TRUE)
    /\ lru_cache' = LruSetCache(lru_cache, k, v, now, lru_max_size)
    /\ UNCHANGED <<now, cbvars, rlvars, tbvars, ttlvars, clvars, lru_max_size, lru_hits,
                   lru_misses, thvars, bo, ck>>

\* LRUCache.invalidate(key)
LruInvalidate(k) ==
    /\ LruOp("invalidate", k, FALSE)
    /\ lru_cache' = Without(lru_cache, k)
    /\ UNCHANGED <<now, cbvars, rlvars, tbvars, ttlvars, clvars, lru_max_size, lru_hits,
                   lru_misses, thvars, bo, ck>>

\* LRUCache.clear()
LruClear ==
    /\ LruOp("clear", 0, FALSE)
    /\ lru_cache' = <<>>
    /\ UNCHANGED <<now, cbvars, rlvars, tbvars, ttlvars, clvars, lru_max_size, lru_hits,
                   lru_misses, thvars, bo, ck>>

\* the LRUCache stores clock readings (created_at) and never reads one: the
\* clock is left where it is
NextLRU ==
    \/ \E k \in Keys : LruGet(k)
    \/ \E k \in Keys, v \in UpstreamValues : LruSet(k, v)
    \/ \E k \in Keys : LruInvalidate(k)
    \/ LruClear

SpecLRU == InitLRU /\ [][NextLRU]_vars

\* --------------------------------------------------------------- TTLCache
\* TTLCache(default_ttl_seconds, max_size), every other component left in
\* its initial state; default_ttl = 0 stores entries that never expire
InitTTL ==
    /\ now = 0
    /\ failure_threshold = UsptoFailureThreshold
    /\ success_threshold = UsptoSuccessThreshold
    /\ recovery_timeout = RecoveryTimeout
    /\ max_attempts = RetryMaxAttempts
    /\ tokens_per_tick = 1
    /\ burst_size = 1
    /\ CbInit
    /\ RlInit
    /\ TbInit
    /\ lru_max_size = MaxCacheSize
    /\ LruInit
    /\ default_ttl \in {0, MaxTtl}
    /\ ttl_max_size = MaxCacheSize
    /\ TtlInit
    /\ enable_cache = TRUE
    /\ ClInit
    /\ ThInit
    /\ bo = NoBackoff
    /\ ck = NoKeyCalls

\* an entry never expires
is_expired_Never(e, t) == FALSE

\* CacheEntry.is_expired at clock reading t
is_expired(e, t) ==
    IF e.expires_at = None THEN FALSE ELSE t > e.expires_at

\* does get / get_with_metadata find a value to return
TtlHit(c, k, allow_stale, t) ==
    /\ IndexOf(c, k) # 0
    /\ is_expired(c[IndexOf(c, k)], t) => allow_stale

\* the _cache after TTLCache.get / get_with_metadata
TtlGetCache(c, k, allow_stale, t) ==
    IF IndexOf(c, k) = 0 THEN c
    ELSE IF ~TtlHit(c, k, allow_stale, t) THEN Without(c, k)
    ELSE [c EXCEPT ![IndexOf(c, k)] = access(@)]

\* what TTLCache.get returns
TtlGetValue(c, k, allow_stale, t) ==
    IF TtlHit(c, k, allow_stale, t) THEN c[IndexOf(c, k)].value ELSE NoValue

\* the entry with the most hits goes
evict_oldest_MostRead(c) ==
    IF c = <<>> THEN c
    ELSE Without(c, c[CHOOSE i \in 1..Len(c) :
                         \A j \in 1..Len(c) :
                            c[i].hit_count >= c[j].hit_count].key)

\* TTLCache._evict_oldest: min() returns the first key of the dict with the
\* smallest created_at
evict_oldest(c) ==
    IF c = <<>> THEN c
    ELSE LET first == CHOOSE i \in 1..Len(c) :
                         /\ \A j \in 1..Len(c) :
                               c[i].created_at <= c[j].created_at
                         /\ \A j \in 1..(i - 1) :
                               c[j].created_at > c[i].created_at
         IN  Without(c, c[first].key)

\* the _cache after TTLCache.set(key, value, ttl_seconds) at clock reading t
TtlSetCache(c, k, v, ttl, t, max) ==
    LET room == IF Len(c) >= max /\ IndexOf(c, k) = 0
                THEN evict_oldest(c) ELSE c
        new == CacheEntry(k, v, t, IF ttl > 0 THEN t + ttl ELSE None)
    IN  IF IndexOf(room, k) # 0
        THEN [room EXCEPT ![IndexOf(room, k)] = new]
        ELSE Append(room, new)

\* history of one TTLCache operation
TtlOp(op, k, allow_stale) ==
    /\ ttl_ops < MaxCacheOps
    /\ ttl_ops' = ttl_ops + 1
    /\ lastTtl' = [op |-> op, key |-> k, pre |-> ttl_cache,
                   result |-> TtlGetValue(ttl_cache, k, allow_stale, now),
                   stale |-> IF IndexOf(ttl_cache, k) = 0 THEN FALSE
                             ELSE is_expired(ttl_cache[IndexOf(ttl_cache, k)],
                                             now),
                   allow_stale |-> allow_stale,
                   hits |-> ttl_hits, misses |-> ttl_misses, time |-> now]

\* the counters after get / get_with_metadata
TtlCount(k, allow_stale) ==
    /\ ttl_hits' = IF TtlHit(ttl_cache, k, allow_stale, now)
                   THEN ttl_hits + 1 ELSE ttl_hits
    /\ ttl_misses' = IF TtlHit(ttl_cache, k, allow_stale, now)
                     THEN ttl_misses ELSE ttl_misses + 1

\* TTLCache.get(key, allow_stale)
TtlGet(k, allow_stale) ==
    /\ TtlOp("get", k, allow_stale)
    /\ ttl_cache' = TtlGetCache(ttl_cache, k, allow_stale, now)
    /\ TtlCount(k, allow_stale)
    /\ UNCHANGED <<now, cbvars, rlvars, tbvars, lruvars, clvars, default_ttl,
                   ttl_max_size, thvars, bo, ck>>

\* TTLCache.get_with_metadata(key, allow_stale): the dict returned holds the
\* value and is_stale, recorded as result and stale of the history
TtlGetWithMetadata(k, allow_stale) ==
    /\ TtlOp("get_with_metadata", k, allow_stale)
    /\ ttl_cache' = TtlGetCache(ttl_cache, k, allow_stale, now)
    /\ TtlCount(k, allow_stale)
    /\ UNCHANGED <<now, cbvars, rlvars, tbvars, lruvars, clvars, default_ttl,
                   ttl_max_size, thvars, bo, ck>>

\* TTLCache.set(key, value) with the default TTL
TtlSet(k, v) ==
    /\ TtlOp("set", k, FALSE)
    /\ ttl_cache' = TtlSetCache(ttl_cache, k, v, default_ttl, now,
                                ttl_max_size)
    /\ UNCHANGED <<now, cbvars, rlvars, tbvars, lruvars, clvars, default_ttl,
                   ttl_max_size, ttl_hits, ttl_misses, thvars, bo, ck>>

\* TTLCache.invalidate(key)
TtlInvalidate(k) ==
    /\ TtlOp("invalidate", k, FALSE)
    /\ ttl_cache' = Without(ttl_cache, k)
    /\ UNCHANGED <<now, cbvars, rlvars, tbvars, lruvars, clvars, default_ttl,
                   ttl_max_size, ttl_hits, ttl_misses, thvars, bo, ck>>

\* TTLCache.clear()
TtlClear ==
    /\ TtlOp("clear", 0, FALSE)
    /\ ttl_cache' = <<>>
    /\ UNCHANGED <<now, cbvars, rlvars, tbvars, lruvars, clvars, default_ttl,
                   ttl_max_size, ttl_hits, ttl_misses, thvars, bo, ck>>

\* time.time() of the cache moves on
CacheTick ==
    /\ now < MaxCacheTime
    /\ now' = now + 1
    /\ UNCHANGED <<cbvars, rlvars, extvars>>

NextTTL ==
    \/ CacheTick
    \/ \E k \in Keys, allow_stale \in BOOLEAN : TtlGet(k, allow_stale)
    \/ \E k \in Keys, allow_stale \in BOOLEAN :
          TtlGetWithMetadata(k, allow_stale)
    \/ \E k \in Keys, v \in FieldsValues : TtlSet(k, v)
    \/ \E k \in Keys : TtlInvalidate(k)
    \/ TtlClear

SpecTTL == InitTTL /\ [][NextTTL]_vars

\* ------------------------------------------------------ calculate_backoff
\* the arguments of a series of calculate_backoff calls, attempt 0 first
InitBackoff ==
    /\ now = 0
    /\ failure_threshold = UsptoFailureThreshold
    /\ success_threshold = UsptoSuccessThreshold
    /\ recovery_timeout = RecoveryTimeout
    /\ max_attempts = RetryMaxAttempts
    /\ tokens_per_tick = 1
    /\ burst_size = 1
    /\ CbInit
    /\ RlInit
    /\ ComponentsInit
    /\ bo \in [valid : {TRUE}, attempt : {0}, base_delay : 1..MaxBaseDelay,
               max_delay : 1..MaxMaxDelay,
               exponential_base : 1..MaxExponentialBase, jitter : BOOLEAN,
               delay : {0}, prev : {0}]
    /\ ck = NoKeyCalls

\* calculate_backoff(attempt, ...) for the next attempt of the series
CalculateBackoff ==
    /\ bo.attempt <= MaxAttempt
    /\ \E d \in backoff(bo.attempt, bo.base_delay, bo.max_delay,
                        bo.exponential_base, bo.jitter) :
          bo' = [bo EXCEPT !.attempt = @ + 1, !.delay = d, !.prev = bo.delay]
    /\ UNCHANGED <<now, cbvars, rlvars, tbvars, lruvars, ttlvars, clvars,
                   thvars, ck>>

NextBackoff == CalculateBackoff

SpecBackoff == InitBackoff /\ [][NextBackoff]_vars

\* ------------------------------------------------ generate_cache_key calls
\* two calls of generate_cache_key are about to be made
InitKey ==
    /\ now = 0
    /\ failure_threshold = UsptoFailureThreshold
    /\ success_threshold = UsptoSuccessThreshold
    /\ recovery_timeout = RecoveryTimeout
    /\ max_attempts = RetryMaxAttempts
    /\ tokens_per_tick = 1
    /\ burst_size = 1
    /\ CbInit
    /\ RlInit
    /\ ComponentsInit
    /\ bo = NoBackoff
    /\ ck \in [valid : {FALSE}, a : KeyCalls, b : KeyCalls, ka : {<<>>},
               kb : {<<>>}]

\* both calls are made
GenerateKeys ==
    /\ ~ck.valid
    /\ ck' = [ck EXCEPT !.valid = TRUE, !.ka = generate_cache_key(ck.a),
                        !.kb = generate_cache_key(ck.b)]
    /\ UNCHANGED <<now, cbvars, rlvars, tbvars, lruvars, ttlvars, clvars,
                   thvars, bo>>

SpecKey == InitKey /\ [][GenerateKeys]_vars

\* ------------------------------------------------- EnrichedCitationClient
\* the client as constructed, with the breaker, the rate limiter and the
\* caches it shares with nobody else
InitClient ==
    /\ now = 0
    /\ failure_threshold = UsptoFailureThreshold
    /\ success_threshold = UsptoSuccessThreshold
    /\ recovery_timeout = RecoveryTimeout
    /\ max_attempts = RetryMaxAttempts
    /\ tokens_per_tick = TokenScale
    /\ burst_size = 1
    /\ CbInit
    /\ RlInit
    /\ TbInit
    /\ lru_max_size = MaxCacheSize
    /\ LruInit
    /\ default_ttl = MaxTtl
    /\ ttl_max_size = FieldsCacheMaxSize
    /\ TtlInit
    /\ enable_cache \in BOOLEAN
    /\ ClInit
    /\ ThInit
    /\ bo = NoBackoff
    /\ ck = NoKeyCalls

\* generate_cache_key("fields", base_url) and generate_cache_key("search",
\* criteria, start, rows, selected_fields=...): one key per request, each
\* cache with keys of its own
cache_key(r) == IF r.endpoint = "get_fields" THEN 1 ELSE r.criteria

\* the value of the entry of the request's key, NoValue when there is none
CachedEntry(r) ==
    IF r.endpoint = "get_fields"
    THEN TtlGetValue(ttl_cache, cache_key(r), TRUE, now)
    ELSE LruGetValue(lru_cache, cache_key(r))

\* what `cached_result = cache.get(cache_key)` of the _impl functions finds
Lookup(r) ==
    IF ~enable_cache THEN NoValue
    ELSE IF r.endpoint = "get_fields"
    THEN TtlGetValue(ttl_cache, cache_key(r), FALSE, now)
    ELSE LruGetValue(lru_cache, cache_key(r))

\* the caches after a lookup for request r that allows stale entries or not
CacheLookup(r, allow_stale) ==
    IF ~enable_cache
    THEN UNCHANGED <<ttl_cache, ttl_hits, ttl_misses, lru_cache, lru_hits,
                     lru_misses>>
    ELSE IF r.endpoint = "get_fields"
    THEN /\ ttl_cache' = TtlGetCache(ttl_cache, cache_key(r), allow_stale, now)
         /\ TtlCount(cache_key(r), allow_stale)
         /\ UNCHANGED <<lru_cache, lru_hits, lru_misses>>
    ELSE /\ lru_cache' = LruGetCache(lru_cache, cache_key(r), now)
         /\ lru_hits' = IF cache_key(r) \in KeysOf(lru_cache)
                        THEN lru_hits + 1 ELSE lru_hits
         /\ lru_misses' = IF cache_key(r) \in KeysOf(lru_cache)
                          THEN lru_misses ELSE lru_misses + 1
         /\ UNCHANGED <<ttl_cache, ttl_hits, ttl_misses>>

\* the caches after `cache.set(cache_key, result)`
CacheStore(r, v) ==
    IF ~enable_cache
    THEN UNCHANGED <<ttl_cache, lru_cache>>
    ELSE IF r.endpoint = "get_fields"
    THEN /\ ttl_cache' = TtlSetCache(ttl_cache, cache_key(r), v, default_ttl,
                                     now, ttl_max_size)
         /\ UNCHANGED lru_cache
    ELSE /\ lru_cache' = LruSetCache(lru_cache, cache_key(r), v, now,
                                     lru_max_size)
         /\ UNCHANGED ttl_cache

\* the truth value of a dict: an empty one is false
Truthy(v) == v # NoValue /\ (v.body # "empty" \/ v.degraded)

\* result["_cache_status"] = {...}: the dict the cache holds is the one that
\* is written to
Marked(c, k) ==
    [c EXCEPT ![IndexOf(c, k)] = [@ EXCEPT !.value = [@ EXCEPT !.degraded = TRUE]]]

\* does the except CircuitBreakerError clause find something to return
FallbackHit(r) ==
    /\ enable_cache
    /\ IF r.endpoint = "get_fields" THEN cache_key(r) \in KeysOf(ttl_cache)
       ELSE Truthy(LruGetValue(lru_cache, cache_key(r)))

\* the caches after the except CircuitBreakerError clause of get_fields /
\* search_records
Fallback(r) ==
    IF ~enable_cache
    THEN UNCHANGED <<ttl_cache, ttl_hits, ttl_misses, lru_cache, lru_hits,
                     lru_misses>>
    ELSE IF r.endpoint = "get_fields"
    THEN /\ ttl_cache' =
              IF FallbackHit(r)
              THEN Marked(TtlGetCache(ttl_cache, cache_key(r), TRUE, now),
                          cache_key(r))
              ELSE ttl_cache
         /\ TtlCount(cache_key(r), TRUE)
         /\ UNCHANGED <<lru_cache, lru_hits, lru_misses>>
    ELSE /\ lru_cache' =
              IF FallbackHit(r)
              THEN Marked(LruGetCache(lru_cache, cache_key(r), now),
                          cache_key(r))
              ELSE LruGetCache(lru_cache, cache_key(r), now)
         /\ lru_hits' = IF cache_key(r) \in KeysOf(lru_cache)
                        THEN lru_hits + 1 ELSE lru_hits
         /\ lru_misses' = IF cache_key(r) \in KeysOf(lru_cache)
                          THEN lru_misses ELSE lru_misses + 1
         /\ UNCHANGED <<ttl_cache, ttl_hits, ttl_misses>>

\* the history record of a call for request r that starts now
StartOf(r) ==
    [NoCur EXCEPT !.endpoint = r.endpoint, !.key = cache_key(r),
                  !.fresh_pre = (Lookup(r) # NoValue),
                  !.entry_pre = IF enable_cache THEN CachedEntry(r)
                                ELSE NoValue]

\* CircuitBreaker.call rejects the call that arrives now
Rejects == state = "OPEN" /\ ~should_attempt_reset

\* the task holds the breaker's lock: the call is rejected and the fallback
\* of get_fields / search_records runs, or the first attempt is about to run
ClientEnter(t, r) ==
    /\ Enter(t)
    /\ IF Rejects
       THEN /\ Fallback(r)
            /\ lastClient' =
                 [kind |-> IF FallbackHit(r) THEN "value" ELSE "raise",
                  value |-> IF FallbackHit(r)
                            THEN [CachedEntry(r) EXCEPT !.degraded = TRUE]
                            ELSE NoValue,
                  exc |-> IF FallbackHit(r) THEN "" ELSE "CircuitBreakerError",
                  rejected |-> TRUE, stored |-> FALSE,
                  call |-> StartOf(r), failed |-> lastClient.failed]
            /\ req' = [req EXCEPT ![t] = NoRequest]
            /\ UNCHANGED cur
       ELSE /\ cur' = StartOf(r)
            /\ req' = [req EXCEPT ![t] = r]
            /\ UNCHANGED <<lastClient, ttl_cache, ttl_hits, ttl_misses,
                           lru_cache, lru_hits, lru_misses>>
    /\ UNCHANGED <<now, failure_threshold, recovery_timeout,
                   success_threshold, max_attempts, rlvars, tbvars,
                   lru_max_size, lru_ops, lru_used, lastLru, default_ttl,
                   ttl_max_size, ttl_ops, lastTtl, enable_cache, fields_stored,
                   thvars, bo, ck>>

\* get_fields() / search_records(criteria) is called by task t
ClientCall(t, r) ==
    /\ pc[t] = "idle"
    /\ ncalls < MaxCalls
    /\ ncalls' = ncalls + 1
    /\ IF lock_is_free
       THEN ClientEnter(t, r) /\ UNCHANGED waiters
       ELSE /\ waiters' = Append(waiters, t)
            /\ pc' = [pc EXCEPT ![t] = "waiting"]
            /\ req' = [req EXCEPT ![t] = r]
            /\ UNCHANGED <<now, failure_threshold, recovery_timeout,
                           success_threshold, state, failure_count,
                           success_count, last_failure_time, lock,
                           max_attempts, attempt, wake_at, entry, invoked,
                           slept, excs, last, streak, from_closed, opened_at,
                           rlvars, tbvars, lruvars, ttlvars, enable_cache,
                           cur, lastClient, fields_stored, thvars, bo, ck>>

\* the first waiter obtains the released lock
ClientResume(t) ==
    /\ pc[t] = "waiting"
    /\ lock = NoTask
    /\ waiters # <<>>
    /\ Head(waiters) = t
    /\ waiters' = Tail(waiters)
    /\ ClientEnter(t, req[t])
    /\ UNCHANGED ncalls

\* raise_http_exception(response): the exception of a status, "" for none
handle_http_error(status) ==
    IF status < 400 THEN ""
    ELSE IF status = 401 THEN "AuthenticationError"
    ELSE IF status = 403 THEN "AuthorizationError"
    ELSE IF status = 404 THEN "NotFoundError"
    ELSE IF status = 429 THEN "RateLimitError"
    ELSE IF status = 502 THEN "APIConnectionError"
    ELSE IF status = 503 THEN "APIUnavailableError"
    ELSE IF status = 504 THEN "APITimeoutError"
    ELSE IF status >= 500 THEN "APIResponseError"
    ELSE "ValidationError"

\* the default expected_types of _validate_content_type
ExpectedTypes == {<<"application/json">>,
                  <<"application/json", "; charset=utf-8">>,
                  <<"application/json", ";charset=utf-8">>,
                  <<"application/gzip">>, <<"application/x-gzip">>}

\* content_type.startswith(expected.split(";")[0]): the media type of the
\* expected type is the first chunk of the header
startswith(content_type, expected) ==
    content_type # <<>> /\ content_type[1] = expected[1]

\* _validate_content_type raises nothing
validate_content_type(content_type) ==
    /\ content_type # <<>>
    /\ \E expected \in ExpectedTypes :
          content_type = expected \/ startswith(content_type, expected)

\* _validate_response_size raises nothing: the Content-Length header is
\* compared with the maximum; the exception of the comparison of
\* len(response.content) is caught by the `except Exception` around it
validate_response_size(resp) ==
    resp.content_length = None
      \/ resp.content_length <= MAX_RESPONSE_SIZE_BYTES

\* what the try block of the _impl functions raises for a response, "" when
\* it goes on to cache and return response.json()
Outcome(r, resp) ==
    IF resp.exc = "TimeoutException" THEN "APITimeoutError"
    ELSE IF resp.exc = "ConnectError" THEN "APIConnectionError"
    ELSE IF resp.exc = "HTTPError" THEN "APIResponseError"
    ELSE IF handle_http_error(resp.status) # ""
    THEN handle_http_error(resp.status)
    ELSE IF ~validate_content_type(resp.content_type) THEN "APIResponseError"
    ELSE IF ~validate_response_size(resp) THEN "APIResponseError"
    ELSE IF r.endpoint = "search_records" /\ resp.body = "error"
    THEN "APIResponseError"
    ELSE ""

\* the attempt returns v: the retry wrapper and the breaker pass it on
Return(t, v, c, stored) ==
    /\ OnSuccess(t)
    /\ Release(t)
    /\ lastClient' = [kind |-> "value", value |-> v, exc |-> "",
                      rejected |-> FALSE, stored |-> stored, call |-> c,
                      failed |-> {}]
    /\ cur' = NoCur
    /\ req' = [req EXCEPT ![t] = NoRequest]

\* the attempt raises e: the retry wrapper sleeps before the next attempt,
\* or the exception passes the breaker and reaches the caller
Raise(t, e, c) ==
    IF GivesUp(e)
    THEN /\ OnFailure(t, e)
         /\ Release(t)
         /\ lastClient' = [kind |-> "raise", value |-> NoValue, exc |-> e,
                           rejected |-> FALSE, stored |-> FALSE, call |-> c,
                           failed |-> lastClient.failed \cup {c.endpoint}]
         /\ cur' = NoCur
         /\ req' = [req EXCEPT ![t] = NoRequest]
    ELSE /\ \E d \in calculate_backoff(attempt, TRUE) : wake_at' = now + d
         /\ pc' = [pc EXCEPT ![t] = "sleeping"]
         /\ slept' = slept + 1
         /\ excs' = Append(excs, e)
         /\ cur' = c
         /\ UNCHANGED <<state, failure_count, success_count,
                        last_failure_time, lock, attempt, entry, invoked,
                        last, streak, from_closed, opened_at, lastClient,
                        req>>

\* one attempt of _get_fields_impl / _search_records_impl up to its first
\* suspension: the cache lookup, then rate_limiter.acquire, then the input
\* validation of search_records, then the request is sent
ClientAttempt(t) ==
    /\ pc[t] = "invoking"
    /\ CacheLookup(req[t], FALSE)
    /\ IF Lookup(req[t]) # NoValue
       THEN /\ Return(t, Lookup(req[t]), cur, FALSE)
            /\ UNCHANGED <<now, rlvars>>
       ELSE /\ AcquireStep(req[t].endpoint, 1, 0)
            /\ UNCHANGED <<tokens_per_tick, burst_size>>
            /\ LET ok == AcquireResult(req[t].endpoint, 1, now, now)
                   c == [cur EXCEPT !.acquires = @ + 1,
                                    !.acq_false = IF ok THEN @ ELSE @ + 1,
                                    !.acq = IF ok THEN "ok" ELSE "false"]
               IN  IF ~ok THEN Raise(t, "RateLimitError", c)
                   ELSE IF req[t].endpoint = "search_records"
                           /\ req[t].criteria = 0
                   THEN Raise(t, "ValidationError", c)
                   ELSE /\ pc' = [pc EXCEPT ![t] = "http"]
                        /\ cur' = [c EXCEPT !.http = @ + 1]
                        /\ UNCHANGED <<state, failure_count, success_count,
                                       last_failure_time, lock, attempt,
                                       wake_at, entry, invoked, slept, excs,
                                       last, streak, from_closed, opened_at,
                                       lastClient, req>>
    /\ UNCHANGED <<failure_threshold, recovery_timeout, success_threshold,
                   max_attempts, waiters, tbvars, lru_max_size, lru_ops,
                   lru_used, lastLru, default_ttl, ttl_max_size, ttl_ops,
                   lastTtl, enable_cache, ncalls, fields_stored, thvars, bo, ck>>

\* `await self.client.get/post` is over with response resp: the rest of the
\* attempt
ClientResponse(t, resp) ==
    /\ pc[t] = "http"
    /\ IF Outcome(req[t], resp) = ""
       THEN /\ CacheStore(req[t], [body |-> resp.body, degraded |-> FALSE])
            /\ Return(t, [body |-> resp.body, degraded |-> FALSE],
                      [cur EXCEPT !.resp = resp], enable_cache)
            /\ fields_stored' =
                 IF enable_cache /\ req[t].endpoint = "get_fields"
                 THEN [body |-> resp.body, degraded |-> FALSE]
                 ELSE fields_stored
       ELSE /\ Raise(t, Outcome(req[t], resp), [cur EXCEPT !.resp = resp])
            /\ UNCHANGED <<ttl_cache, lru_cache, fields_stored>>
    /\ UNCHANGED <<now, failure_threshold, recovery_timeout,
                   success_threshold, max_attempts, waiters, rlvars, tbvars,
                   lru_max_size, lru_hits, lru_misses, lru_ops, lru_used,
                   lastLru, default_ttl, ttl_max_size, ttl_hits, ttl_misses,
                   ttl_ops, lastTtl, enable_cache, ncalls, thvars, bo, ck>>

\* the clock moves while the client is in use
ClientTick ==
    /\ now < MaxClientTime
    /\ now' = now + 1
    /\ UNCHANGED <<cbvars, rlvars, extvars>>

NextClient ==
    \/ ClientTick
    \/ \E t \in Tasks, r \in Requests : ClientCall(t, r)
    \/ \E t \in Tasks : ClientResume(t)
    \/ \E t \in Tasks : ClientAttempt(t)
    \/ \E t \in Tasks, resp \in Responses : ClientResponse(t, resp)
    \/ \E t \in Tasks : NextAttempt(t)

SpecClient == InitClient /\ [][NextClient]_vars

\* ------------------------------------------- get_fields over a longer time
\* the clock moves past the expiry of a cached fields entry
FieldsTick ==
    /\ now < MaxFieldsTime
    /\ now' = now + 1
    /\ UNCHANGED <<cbvars, rlvars, extvars>>

\* the upstream answers get_fields well, or with a server error
FieldsResponses == {OkResponse, [OkResponse EXCEPT !.status = 500]}

\* the client is used for get_fields only
NextFields ==
    \/ FieldsTick
    \/ \E t \in Tasks : ClientCall(t, [endpoint |-> "get_fields", criteria |-> 0])
    \/ \E t \in Tasks : ClientResume(t)
    \/ \E t \in Tasks : ClientAttempt(t)
    \/ \E t \in Tasks, resp \in FieldsResponses : ClientResponse(t, resp)
    \/ \E t \in Tasks : NextAttempt(t)

SpecFields == InitClient /\ [][NextFields]_vars

\* --------------------------------------- both operations behind the breaker
\* one well-formed request of each operation
BothRequests == {[endpoint |-> "get_fields", criteria |-> 0],
                 [endpoint |-> "search_records", criteria |-> 1]}

\* the client is used for both operations while the upstream answers well
\* or with a server error
NextBoth ==
    \/ ClientTick
    \/ \E t \in Tasks, r \in BothRequests : ClientCall(t, r)
    \/ \E t \in Tasks : ClientResume(t)
    \/ \E t \in Tasks : ClientAttempt(t)
    \/ \E t \in Tasks, resp \in FieldsResponses : ClientResponse(t, resp)
    \/ \E t \in Tasks : NextAttempt(t)

SpecBoth == InitClient /\ [][NextBoth]_vars

\* ------------------------------------------------- circuit breaker claims
\* failure_count the wrapped function's outcome is applied to, for a call
\* that found the breaker as in snapshot p
FcAtInvoke(p) ==
    IF p.state = "HALF_OPEN" /\ p.success_count >= success_threshold
    THEN 0 ELSE p.failure_count

\* C1: starting from CLOSED with failure_count = 0, after k consecutive
\* failing calls the breaker is still CLOSED (with failure_count = k) while
\* k < failure_threshold, and after the failure_threshold-th it is OPEN with
\* failure_count = failure_threshold.
C1_OpensAtThreshold ==
    (last.kind = "failure" /\ from_closed) =>
        /\ streak < failure_threshold =>
              state = "CLOSED" /\ failure_count = streak
        /\ streak = failure_threshold =>
              state = "OPEN" /\ failure_count = failure_threshold

C1_Witness ==
    /\ last.kind = "failure"
    /\ from_closed
    /\ failure_threshold >= 2
    /\ streak = failure_threshold
    /\ state = "OPEN"

\* C2: a call that finds the breaker OPEN less than recovery_timeout after
\* the last recorded failure is rejected (it never gets to invoke the
\* function), and a rejected call leaves state, failure_count, success_count
\* and last_failure_time as they were.
C2_OpenFailsFast ==
    /\ last.kind = "rejected" =>
          /\ last.exc = "CircuitBreakerError"
          /\ last.invoked = 0
          /\ state = last.pre.state
          /\ failure_count = last.pre.failure_count
          /\ success_count = last.pre.success_count
          /\ last_failure_time = last.pre.last_failure_time
    /\ (lock # NoTask /\ entry.state = "OPEN") =>
          entry.time - entry.last_failure_time >= recovery_timeout

C2_Witness ==
    /\ last.kind = "rejected"
    /\ last.pre.state = "OPEN"
    /\ last.pre.time > last.pre.last_failure_time
    /\ last.pre.success_count > 0

\* C3: a call that finds the breaker OPEN at least recovery_timeout after it
\* opened is not rejected: it moves the breaker to HALF_OPEN with
\* success_count = 0 and invokes the wrapped function.
C3_HalfOpenAfterTimeout ==
    /\ last.kind = "rejected" =>
          last.pre.time - opened_at < recovery_timeout
    /\ (lock # NoTask /\ entry.state = "OPEN") =>
          /\ entry.time - opened_at >= recovery_timeout
          /\ state = "HALF_OPEN"
          /\ success_count = 0
          /\ invoked >= 1
          /\ pc[lock] \in {"invoking", "sleeping"}

C3_Witness ==
    /\ lock # NoTask
    /\ entry.state = "OPEN"
    /\ entry.success_count > 0
    /\ entry.time - opened_at = recovery_timeout
    /\ state = "HALF_OPEN"
    /\ success_count = 0

\* C4: the successful call that brings the number of successes since
\* entering HALF_OPEN to success_threshold leaves the breaker CLOSED with
\* failure_count = 0.
C4_ClosesAtSuccessThreshold ==
    (/\ last.kind = "success"
     /\ last.pre.state \in {"OPEN", "HALF_OPEN"}
     /\ (IF last.pre.state = "OPEN" THEN 0 ELSE last.pre.success_count) + 1
           = success_threshold)
    => (state = "CLOSED" /\ failure_count = 0)

\* C5: a failing call made while the breaker is HALF_OPEN, whatever its
\* success_count, leaves the breaker OPEN with last_failure_time the time of
\* that failure.
C5_HalfOpenFailureReopens ==
    (last.kind = "failure" /\ last.pre.state = "HALF_OPEN") =>
        (state = "OPEN" /\ last_failure_time = last.time)

\* C6: a successful call made while CLOSED leaves the breaker CLOSED with
\* failure_count = 0, and a call leaves CLOSED only as the last of at least
\* failure_threshold failing calls with no success in between.
C6_OnlyConsecutiveFailuresOpen ==
    /\ (last.kind = "success" /\ last.pre.state = "CLOSED") =>
          (state = "CLOSED" /\ failure_count = 0)
    /\ (last.kind = "failure" /\ last.pre.state = "CLOSED"
          /\ state # "CLOSED") => streak >= failure_threshold

C6_Witness ==
    /\ last.kind = "success"
    /\ last.pre.state = "CLOSED"
    /\ last.pre.failure_count > 0
    /\ failure_count = 0

\* C7: the breaker sees one outcome per protected call: a call whose
\* operation failed and was retried before it succeeded does not raise
\* failure_count and counts as one success, and a call whose operation
\* failed on every attempt raises failure_count by exactly 1.
C7_RetryInsideBreaker ==
    /\ (last.kind = "success" /\ last.invoked >= 2) =>
          /\ failure_count <= FcAtInvoke(last.pre)
          /\ state = "HALF_OPEN" =>
                success_count =
                   (IF last.pre.state = "OPEN" THEN 0
                    ELSE last.pre.success_count) + 1
    /\ last.kind = "failure" => failure_count = FcAtInvoke(last.pre) + 1

C7_Witness ==
    /\ last.kind = "failure"
    /\ max_attempts >= 2
    /\ last.invoked = max_attempts
    /\ last.pre.failure_count >= 1
    /\ failure_count = last.pre.failure_count + 1

\* C8: a call that fails is one whose operation raised retryable exceptions
\* on max_attempts invocations, or whose last invocation raised a
\* non-retryable one; an operation raising retryable exceptions only is
\* invoked exactly max_attempts times, one raising a non-retryable exception
\* first is invoked exactly once with no sleep, and the exception of the
\* last invocation is the one that propagates.
AllRetryable(h) ==
    \A i \in 1..Len(h) : is_retryable_error(h[i], RetryableExceptions)

AcqGlobalBefore == Refilled(lastAcq.g_pre, lastAcq.t1)
AcqEndpointBefore ==
    IF lastAcq.e_pre = NoBucket THEN capacity
    ELSE Refilled(lastAcq.e_pre, lastAcq.t2)

\* C9: acquire is all-or-nothing: after an acquire that returned true both
\* the global and the endpoint bucket hold n tokens less, and after one that
\* returned false neither bucket holds fewer tokens than before.
C9_AllOrNothing ==
    lastAcq.valid =>
        IF lastAcq.result
        THEN /\ global_bucket.tokens = AcqGlobalBefore - lastAcq.n * TokenScale
             /\ buckets[lastAcq.endpoint].tokens =
                   AcqEndpointBefore - lastAcq.n * TokenScale
        ELSE /\ global_bucket.tokens = AcqGlobalBefore
             /\ lastAcq.endpoint \in DOMAIN buckets =>
                   Refilled(buckets[lastAcq.endpoint], lastAcq.t2)
                      = AcqEndpointBefore

\* C10: acquire returns true exactly when the global bucket and the
\* endpoint bucket, each refilled at the moment it is consulted, hold at
\* least n tokens; an endpoint without a bucket gets a full one, and an
\* existing bucket is the one consumed from.
C10_DoubleGate ==
    lastAcq.valid =>
        /\ lastAcq.result <=>
              (/\ AcqGlobalBefore >= lastAcq.n * TokenScale
               /\ AcqEndpointBefore >= lastAcq.n * TokenScale)
        /\ lastAcq.result =>
              buckets[lastAcq.endpoint] =
                 [tokens |-> AcqEndpointBefore - lastAcq.n * TokenScale,
                  last_update |-> lastAcq.t2]
        /\ DOMAIN buckets \ {lastAcq.endpoint} = DOMAIN lastAcq.others
        /\ \A e \in DOMAIN lastAcq.others : buckets[e] = lastAcq.others[e]

C10_Witness ==
    /\ lastAcq.valid
    /\ lastAcq.result
    /\ lastAcq.e_pre # NoBucket
    /\ lastAcq.e_pre.tokens < lastAcq.n * TokenScale
    /\ Cardinality(DOMAIN buckets) = 2
\* ---------------------------------------------------- token bucket claims
\* C11: the stored token level of a bucket is never negative and never above
\* its capacity, whatever consume, get_wait_time and wait_for_token calls and
\* passage of time it has seen, and a bucket nothing was consumed from yet
\* holds exactly its capacity.
C11_TokensWithinBounds ==
    /\ bucket.tokens >= 0
    /\ bucket.tokens <= burst_size * TokenScale
    /\ ~lastConsume.valid => bucket.tokens = burst_size * TokenScale

\* a failed consume found the bucket below capacity long enough ago for an
\* uncapped refill to overshoot, and left it at capacity
C11_Witness ==
    /\ lastConsume.valid
    /\ ~lastConsume.result
    /\ lastConsume.pre.tokens < burst_size * TokenScale
    /\ lastConsume.pre.tokens
         + (lastConsume.time - lastConsume.pre.last_update) * tokens_per_tick
            > burst_size * TokenScale
    /\ bucket.tokens = burst_size * TokenScale

\* tokens granted at the clock readings i..j
RECURSIVE GrantedSum(_, _)
GrantedSum(i, j) ==
    IF i > j THEN 0 ELSE granted[j] + GrantedSum(i, j - 1)

\* C12: conservation: the tokens granted by the successful consume calls of
\* any time window are at most capacity + rate * (length of the window).
C12_Conservation ==
    \A i \in 0..MaxTime : \A j \in i..MaxTime :
        GrantedSum(i, j) <= burst_size * TokenScale + tokens_per_tick * (j - i)

\* a window of positive length, with grants at both ends, that uses up the
\* bound
C12_Witness ==
    \E i \in 0..MaxTime : \E j \in (i + 1)..MaxTime :
        /\ granted[i] > 0
        /\ granted[j] > 0
        /\ GrantedSum(i, j) = burst_size * TokenScale
                              + tokens_per_tick * (j - i)

\* the level consume(n) compares with n: the stored level plus the refill
\* for the time since last_update, capped at capacity
LevelAtConsume ==
    Min(burst_size * TokenScale,
        lastConsume.pre.tokens
          + (lastConsume.time - lastConsume.pre.last_update) * tokens_per_tick)

LeastRecentlyUsed(c) ==
    CHOOSE k \in KeysOf(c) : \A k2 \in KeysOf(c) : lru_used[k] <= lru_used[k2]

\* C18: the LRUCache never holds more than max_size entries; its entries are
\* kept in the order in which they were last read (hit) or written; a set of
\* a new key into a full cache evicts exactly the key read or written
\* longest ago and leaves max_size entries; no other operation evicts.
C18_LruEviction ==
    /\ Len(lru_cache) <= lru_max_size
    /\ \A i \in 1..Len(lru_cache) : \A j \in (i + 1)..Len(lru_cache) :
          lru_used[lru_cache[i].key] < lru_used[lru_cache[j].key]
    /\ lastLru.op = "set" =>
          IF lastLru.key \notin KeysOf(lastLru.pre)
               /\ Len(lastLru.pre) = lru_max_size
          THEN /\ KeysOf(lru_cache) =
                     (KeysOf(lastLru.pre) \ {LeastRecentlyUsed(lastLru.pre)})
                        \cup {lastLru.key}
               /\ Len(lru_cache) = lru_max_size
          ELSE KeysOf(lru_cache) = KeysOf(lastLru.pre) \cup {lastLru.key}
    /\ lastLru.op = "get" => KeysOf(lru_cache) = KeysOf(lastLru.pre)

\* a set overflowed a cache of at least two entries in which earlier reads
\* had made one entry the most recently used: that entry stays, the entry
\* at the other end goes
C18_Witness ==
    /\ lastLru.op = "set"
    /\ lru_max_size >= 2
    /\ Len(lastLru.pre) = lru_max_size
    /\ lastLru.key \notin KeysOf(lastLru.pre)
    /\ lastLru.pre[Len(lastLru.pre)].hit_count > 0
    /\ lastLru.pre[1].hit_count = 0
    /\ lastLru.pre[1].key \notin KeysOf(lru_cache)
    /\ lastLru.pre[Len(lastLru.pre)].key \in KeysOf(lru_cache)
    /\ Len(lru_cache) = lru_max_size
\* the entry of key k in dict c
EntryOf(c, k) == c[IndexOf(c, k)]

\* C19: the TTLCache never holds more than max_size entries; a set of a new
\* key into a full cache evicts exactly one entry, one whose created_at is
\* the earliest, whatever the hit counts are; a set of a key already present
\* or into a cache with room evicts nothing, and a read evicts nothing but
\* the entry it finds expired.
C19_TtlEviction ==
    /\ Len(ttl_cache) <= ttl_max_size
    /\ lastTtl.op = "set" =>
          IF lastTtl.key \notin KeysOf(lastTtl.pre)
               /\ Len(lastTtl.pre) = ttl_max_size
          THEN \E victim \in KeysOf(lastTtl.pre) :
                  /\ \A k \in KeysOf(lastTtl.pre) :
                        EntryOf(lastTtl.pre, victim).created_at
                           <= EntryOf(lastTtl.pre, k).created_at
                  /\ KeysOf(ttl_cache) =
                        (KeysOf(lastTtl.pre) \ {victim}) \cup {lastTtl.key}
          ELSE KeysOf(ttl_cache) = KeysOf(lastTtl.pre) \cup {lastTtl.key}
    /\ lastTtl.op \in {"get", "get_with_metadata"} =>
          KeysOf(lastTtl.pre) \ {lastTtl.key} \subseteq KeysOf(ttl_cache)

\* a set evicted an entry that had been read although a younger entry that
\* was never read was there
C19_Witness ==
    /\ lastTtl.op = "set"
    /\ Len(lastTtl.pre) = ttl_max_size
    /\ lastTtl.key \notin KeysOf(lastTtl.pre)
    /\ \E old \in KeysOf(lastTtl.pre) \ KeysOf(ttl_cache) :
          \E young \in KeysOf(lastTtl.pre) \cap KeysOf(ttl_cache) :
             /\ EntryOf(lastTtl.pre, old).hit_count > 0
             /\ EntryOf(lastTtl.pre, young).hit_count = 0
             /\ EntryOf(lastTtl.pre, old).created_at
                   < EntryOf(lastTtl.pre, young).created_at

\* the last operation read a key whose entry had expired
ReadExpired ==
    /\ lastTtl.op \in {"get", "get_with_metadata"}
    /\ lastTtl.key \in KeysOf(lastTtl.pre)
    /\ EntryOf(lastTtl.pre, lastTtl.key).expires_at # None
    /\ lastTtl.time > EntryOf(lastTtl.pre, lastTtl.key).expires_at

\* C20: a read of an expired entry with allow_stale returns the stored
\* value (get_with_metadata reporting it stale), keeps the entry and counts
\* a hit; without allow_stale it returns nothing, counts a miss and removes
\* the entry; and a read of a key that is not in the cache misses whatever
\* allow_stale is.
C20_StaleRead ==
    /\ ReadExpired =>
          IF lastTtl.allow_stale
          THEN /\ lastTtl.result = EntryOf(lastTtl.pre, lastTtl.key).value
               /\ lastTtl.stale
               /\ lastTtl.key \in KeysOf(ttl_cache)
               /\ EntryOf(ttl_cache, lastTtl.key).hit_count =
                     EntryOf(lastTtl.pre, lastTtl.key).hit_count + 1
               /\ ttl_hits = lastTtl.hits + 1
               /\ ttl_misses = lastTtl.misses
          ELSE /\ lastTtl.result = NoValue
               /\ lastTtl.key \notin KeysOf(ttl_cache)
               /\ ttl_hits = lastTtl.hits
               /\ ttl_misses = lastTtl.misses + 1
    /\ (lastTtl.op \in {"get", "get_with_metadata"}
          /\ lastTtl.key \notin KeysOf(lastTtl.pre)) =>
          /\ lastTtl.result = NoValue
          /\ ttl_misses = lastTtl.misses + 1
          /\ ttl_hits = lastTtl.hits

\* get_with_metadata(allow_stale=True) served an expired entry that an
\* earlier stale read had already served
C20_Witness ==
    /\ ReadExpired
    /\ lastTtl.op = "get_with_metadata"
    /\ lastTtl.allow_stale
    /\ lastTtl.stale
    /\ lastTtl.result # NoValue
    /\ EntryOf(ttl_cache, lastTtl.key).hit_count >= 2
    /\ ttl_misses > 0

\* ------------------------------------------------------ concurrency claims
\* C21: consume calls of several threads on one bucket exclude each other
\* from refill, check and subtraction: the token level is never negative,
\* and the calls that returned true were handed no more than the bucket
\* held at the start plus what was refilled since, so that two concurrent
\* consume(n) on a bucket with fewer than 2n tokens do not both succeed.
C21_ConsumeExcludes ==
    /\ bucket.tokens >= 0
    /\ taken + bucket.tokens <= burst_size * TokenScale + now * tokens_per_tick
    /\ \A t \in Tasks : \A u \in Tasks \ {t} :
          ~(th[t].pc \in {"refill", "check", "subtract", "exit"}
              /\ th[u].pc \in {"refill", "check", "subtract", "exit"})

\* a consume that began while another thread held the lock finds that the
\* other took the tokens, and is refused
C21_Witness ==
    \E t \in Tasks :
        /\ th[t].pc = "exit"
        /\ th[t].waited
        /\ ~th[t].ok
        /\ taken > 0
        /\ bucket.tokens + taken >= th[t].n * TokenScale

\* the tasks whose call is past the breaker's admission
InFlight == {t \in Tasks : pc[t] \in {"invoking", "sleeping", "http"}}

\* C22: concurrent calls of one breaker are serialized by its lock, held
\* from the state check to the state update: at most one wrapped operation
\* is in flight, a failing call raises failure_count by exactly one, and
\* after a run of failing calls that started from CLOSED with no failure
\* recorded failure_count is the number of those calls that invoked the
\* function, callers that waited for the lock included.
C22_CallsSerialized ==
    /\ Cardinality(InFlight) <= 1
    /\ \A t \in InFlight : lock = t
    /\ \A t \in Tasks : pc[t] = "waiting" =>
          \E i \in 1..Len(waiters) : waiters[i] = t
    /\ last.kind = "failure" =>
          /\ failure_count = FcAtInvoke(last.pre) + 1
          /\ from_closed => failure_count = streak

\* the second of two failing calls that overlapped has failed, while the
\* next caller already waits for the lock
C22_Witness ==
    /\ last.kind = "failure"
    /\ from_closed
    /\ streak >= 2
    /\ failure_count = streak
    /\ waiters # <<>>
    /\ lock = NoTask

\* the state the wrapped function of a call that found the breaker as in
\* snapshot p was invoked in
StAtInvoke(p) ==
    LET s1 == IF p.state = "OPEN" THEN "HALF_OPEN" ELSE p.state
        c1 == IF p.state = "OPEN" THEN 0 ELSE p.success_count
    IN  IF s1 = "HALF_OPEN" /\ c1 >= success_threshold THEN "CLOSED" ELSE s1

C14_DegradedFallback ==
    lastClient.rejected =>
        IF enable_cache /\ lastClient.call.entry_pre # NoValue
        THEN /\ lastClient.kind = "value"
             /\ lastClient.value =
                  [lastClient.call.entry_pre EXCEPT !.degraded = TRUE]
        ELSE /\ lastClient.kind = "raise"
             /\ lastClient.exc = "CircuitBreakerError"

\* C15: with caching enabled, a call whose cache key has a non-expired entry
\* returns that cached value, with no HTTP request and no token consumed,
\* whatever the state of the circuit breaker.
C15_CacheLookupFirst ==
    (lastClient.kind # "none" /\ enable_cache /\ lastClient.call.fresh_pre) =>
        /\ lastClient.kind = "value"
        /\ lastClient.value = lastClient.call.entry_pre
        /\ lastClient.call.http = 0
        /\ lastClient.call.acquires = 0

\* C16: when RateLimiter.acquire returns false no HTTP request is issued for
\* it, and the call ends with RateLimitError raised to the caller.
C16_RateLimitErrorReachesCaller ==
    /\ \A t \in Tasks : pc[t] = "http" => cur.acq = "ok"
    /\ lastClient.call.acq_false > 0 =>
          lastClient.kind = "raise" /\ lastClient.exc = "RateLimitError"

\* C17: a successful HTTP response whose Content-Type is missing or not in
\* the allow-list, or whose body is larger than the maximum (with or without
\* a correct Content-Length header), is rejected with APIResponseError, and
\* is neither cached nor returned.
C17_ResponseValidated ==
    (/\ lastClient.call.http > 0
     /\ lastClient.call.resp.exc = ""
     /\ lastClient.call.resp.status = 200
     /\ \/ lastClient.call.resp.content_type \notin ExpectedTypes
        \/ lastClient.call.resp.size > MAX_RESPONSE_SIZE_BYTES) =>
        /\ lastClient.kind = "raise"
        /\ lastClient.exc = "APIResponseError"
        /\ ~lastClient.stored

\* C23: rate limiting and circuit breaking are separate critical sections:
\* no task holds the breaker's lock while it performs the rate limiter's
\* acquire, or while it backs off after acquire refused it, so a caller held
\* up by the rate limit keeps nobody from entering the breaker.
C23_IndependentSections ==
    /\ lock # NoTask => cur.acquires = 0
    /\ \A t \in Tasks :
          (pc[t] = "sleeping" /\ cur.acq = "false") =>
              (lock # t /\ waiters = <<>>)

\* C25: a get_fields / search_records call that misses the cache performs
\* RateLimiter.acquire exactly once, before the circuit breaker is
\* consulted; the breaker wraps the retried HTTP call, so retries perform no
\* further acquire and one call takes at most one token per bucket.
C25_AcquireOncePerCall ==
    /\ cur.acquires <= 1
    /\ (lastClient.kind # "none" /\ ~lastClient.call.fresh_pre) =>
          lastClient.call.acquires = 1

\* C26: with the default retryable set, a call whose HTTP request fails with
\* APIConnectionError, APITimeoutError or APIResponseError is attempted
\* again until an attempt succeeds or max_attempts attempts were made;
\* ValidationError and CircuitBreakerError are never followed by another
\* attempt.
C26_TransientErrorsRetried ==
    last.kind = "failure" =>
        /\ last.exc \in {"APIConnectionError", "APITimeoutError",
                         "APIResponseError"} =>
              last.invoked = max_attempts
        /\ \A i \in 1..(Len(last.excs) - 1) :
              last.excs[i] \notin {"ValidationError", "CircuitBreakerError"}

\* C28: a normal cache hit returns the value that was stored from the
\* upstream response, and serving a degraded-mode response leaves the cached
\* entry as it was: no entry of either cache carries the degraded marker.
C28_FallbackLeavesEntry ==
    /\ (lastClient.kind = "value" /\ ~lastClient.rejected
           /\ lastClient.call.fresh_pre) => ~lastClient.value.degraded
    /\ \A i \in 1..Len(ttl_cache) : ~ttl_cache[i].value.degraded
    /\ \A i \in 1..Len(lru_cache) : ~lru_cache[i].value.degraded

\* C29: once get_fields has succeeded and its result was cached, every
\* later get_fields call that the OPEN breaker rejects returns that value
\* in degraded mode instead of raising, also when the entry's TTL has
\* expired and refresh attempts through get_fields failed before the
\* breaker opened (nothing invalidates, clears or evicts the entry here).
C29_StaleSurvives ==
    (/\ lastClient.rejected
     /\ lastClient.call.endpoint = "get_fields"
     /\ fields_stored # NoValue) =>
        /\ lastClient.kind = "value"
        /\ lastClient.value = [fields_stored EXCEPT !.degraded = TRUE]

\* C30: failure_count increases only for calls that issued an HTTP request
\* which failed: a call refused locally, with RateLimitError because
\* RateLimiter.acquire returned false or with ValidationError for its
\* arguments, leaves the breaker's state and failure_count as they were
\* before the call, and so never opens the circuit.
C30_LocalRejectionsNotCounted ==
    (last.kind = "failure" /\ lastClient.kind = "raise"
        /\ lastClient.call.http = 0) =>
        /\ lastClient.exc \in {"RateLimitError", "ValidationError"}
        /\ failure_count = last.pre.failure_count
        /\ state = last.pre.state

\* C31: only calls that reached the upstream and succeeded count as
\* successes of the breaker: a protected call answered from the cache inside
\* the wrapped function (no HTTP request) does not increment success_count
\* in HALF_OPEN and does not reset failure_count in CLOSED.
C31_CacheHitsNotCounted ==
    (last.kind = "success" /\ lastClient.kind = "value"
        /\ ~lastClient.rejected /\ lastClient.call.http = 0) =>
        /\ state = "CLOSED" => failure_count = FcAtInvoke(last.pre)
        /\ state = "HALF_OPEN" =>
              success_count = IF last.pre.state = "OPEN" THEN 0
                              ELSE last.pre.success_count

\* ---------------------------------------------------------- liveness claims
\* C32: when from some time on every invoked operation succeeds, time keeps
\* advancing and calls keep arriving, the breaker eventually is CLOSED and
\* stays CLOSED: it remains neither OPEN nor HALF_OPEN forever.
C32_EventuallyClosed == <>[](state = "CLOSED")

\* a call that follows the successful probes closes the breaker, after the
\* time of the failures and a failure in HALF_OPEN
C32_Witness ==
    /\ state = "CLOSED"
    /\ now > FailuresUntil
    /\ last_failure_time # None
    /\ \E t \in Tasks : pc[t] = "invoking" /\ entry.state = "HALF_OPEN"

\* ------------------------------------------------- rate limiter claims (2)
\* C33 as stated: each endpoint bucket's available tokens, refilled to the
\* same instant, are at least the global bucket's, so whenever the global
\* bucket grants in acquire the endpoint bucket grants too (the
\* endpoint-rejection branch is never taken).
C33_EndpointNeverBinds ==
    /\ \A e \in DOMAIN buckets :
          Refilled(buckets[e], now) >= Refilled(global_bucket, now)
    /\ (lastAcq.valid /\ ConsumeOk(lastAcq.g_pre, lastAcq.n, lastAcq.t1)) =>
          lastAcq.result

\* the endpoint bucket was not behind the global one when the last acquire
\* began (an endpoint without a bucket gets a full one)
C33_NotBehindBefore ==
    \/ lastAcq.e_pre = NoBucket
    \/ Refilled(lastAcq.e_pre, lastAcq.t1)
          >= Refilled(lastAcq.g_pre, lastAcq.t1)

\* C33 amended: an endpoint bucket that is not behind the global bucket when
\* an acquire begins grants whenever the global bucket grants, and is still
\* not behind afterwards if both consume calls of the acquire read the same
\* clock value.
C33_EndpointFollowsGlobal ==
    (lastAcq.valid /\ C33_NotBehindBefore) =>
        /\ ConsumeOk(lastAcq.g_pre, lastAcq.n, lastAcq.t1) => lastAcq.result
        /\ (lastAcq.t2 = lastAcq.t1 /\ lastAcq.endpoint \in DOMAIN buckets) =>
              Refilled(buckets[lastAcq.endpoint], now)
                 >= Refilled(global_bucket, now)

\* both buckets were partly used and level, the clock did not move between
\* the two consume calls, and both granted
C33_Witness ==
    /\ lastAcq.valid
    /\ lastAcq.e_pre # NoBucket
    /\ lastAcq.t2 = lastAcq.t1
    /\ Refilled(lastAcq.e_pre, lastAcq.t1) < capacity
    /\ Refilled(lastAcq.e_pre, lastAcq.t1)
          = Refilled(lastAcq.g_pre, lastAcq.t1)
    /\ lastAcq.result
    /\ Refilled(buckets[lastAcq.endpoint], now)
          = Refilled(global_bucket, now)

\* ------------------------------------------------ circuit breaker claims (2)
\* C34: between calls (nobody holds the breaker's lock) a CLOSED breaker has
\* failure_count < failure_threshold and a HALF_OPEN breaker has
\* success_count <= success_threshold.
C34_CountsWithinThresholds ==
    lock = NoTask =>
        /\ state = "CLOSED" => failure_count < failure_threshold
        /\ state = "HALF_OPEN" => success_count <= success_threshold

\* the last probe reached success_threshold and the breaker is still
\* HALF_OPEN, with the failures that opened it still counted
C34_Witness ==
    /\ lock = NoTask
    /\ state = "HALF_OPEN"
    /\ success_count = success_threshold
    /\ failure_count >= failure_threshold
    /\ last.kind = "success"

\* C35: an OPEN breaker has last_failure_time set, and every call that
\* takes the breaker from OPEN to HALF_OPEN sets success_count to 0 before
\* the operation is invoked: the successes of an earlier HALF_OPEN episode
\* are not counted again after a fail-back to OPEN.
C35_FreshProbeCount ==
    /\ state = "OPEN" => last_failure_time # None
    /\ \A t \in Tasks :
          (pc[t] \in {"invoking", "sleeping"} /\ lock = t
              /\ entry.state = "OPEN") =>
              state = "HALF_OPEN" /\ success_count = 0
    /\ (last.kind = "success" /\ last.pre.state = "OPEN") =>
          state = "HALF_OPEN" /\ success_count = 1

\* the first probe after a fail-back succeeded; an earlier episode had
\* counted a success
C35_Witness ==
    /\ last.kind = "success"
    /\ last.pre.state = "OPEN"
    /\ last.pre.success_count > 0
    /\ success_count = 1
    /\ success_threshold > 1

\* ------------------------------------------------------ client claims (2)
\* C36: get_fields and search_records are counted by the one breaker:
\* failure_threshold consecutive failing calls, in any mix of the two,
\* starting from CLOSED with no failure counted, open the breaker, and while
\* it is OPEN and not due for a reset a call of either operation is refused
\* without running the operation.
C36_OneBreaker ==
    /\ (last.kind = "failure" /\ from_closed
           /\ streak = failure_threshold) => state = "OPEN"
    /\ lock # NoTask => state # "OPEN"
    /\ (last.kind = "rejected" /\ lastClient.kind # "none") =>
          /\ lastClient.rejected
          /\ last.pre.state = "OPEN"
          /\ lastClient.call.http = 0
          /\ lastClient.call.acquires = 0

\* failures of both operations opened the breaker, and it refuses get_fields
C36_Witness ==
    /\ state = "OPEN"
    /\ from_closed
    /\ streak = failure_threshold
    /\ lastClient.failed = {"get_fields", "search_records"}
    /\ lastClient.rejected
    /\ lastClient.call.endpoint = "get_fields"

\* ------------------------------------------------------ retry claims (2)
\* what C37 says of the calls that are over or asleep
C37_Counts ==
    /\ last.kind = "success" =>
          /\ AllRetryable(last.excs)
          /\ Len(last.excs) < max_attempts
          /\ last.invoked = Len(last.excs) + 1
          /\ last.slept = Len(last.excs)
    /\ last.kind = "failure" => last.slept = last.invoked - 1
    /\ \A t \in Tasks :
          pc[t] = "sleeping" => (slept = invoked /\ invoked < max_attempts)

\* what C37 says of a sleep that begins: it is the sleep number `slept`
\* (from 0) of the call, and lasts backoff(slept), with jitter at most that
C37_Sleep ==
    \A t \in Tasks :
        (pc[t] # "sleeping" /\ pc'[t] = "sleeping") =>
            /\ now' = now
            /\ wake_at' >= now
            /\ wake_at' - now
                  <= Min(base_delay * Pow(exponential_base, slept), max_delay)

\* C37: an operation that fails with retryable exceptions k < max_attempts
\* times and then succeeds is invoked exactly k+1 times and its result is
\* returned, with exactly k sleeps in between, sleep i (i = 0..k-1) lasting
\* backoff(i); no sleep follows the final attempt of a call, successful or
\* not.
C37_RetryThenSuccess == [][C37_Sleep]_vars /\ []C37_Counts

\* two failures, the longest sleeps after them, then the result
C37_Witness ==
    /\ last.kind = "success"
    /\ Len(last.excs) = 2
    /\ last.invoked = 3
    /\ last.slept = 2
    /\ last.time >= last.pre.time + 3

\* ------------------------------------------------ token bucket claims (2)
\* what C38 says of the iterations of wait_for_token: the call is over
\* exactly when its consume succeeded, a failed iteration subtracts nothing
\* and is followed by a sleep of at most one second
C38_Iterations ==
    (lastConsume.valid /\ lastConsume.by = "wait_for_token") =>
        /\ lastConsume.n = wn
        /\ lastConsume.result <=> wpc = "idle"
        /\ bucket.tokens = IF lastConsume.result
                           THEN LevelAtConsume - wn * TokenScale
                           ELSE LevelAtConsume
        /\ wpc = "sleeping" =>
              (wwake >= lastConsume.time /\ wwake <= lastConsume.time + 1)

\* C38: wait_for_token(n) returns only after a consume(n) it issued
\* succeeded, the n tokens being subtracted once; every sleep of its loop
\* lasts at most one second; and with n <= capacity, time advancing and no
\* other consumer it returns eventually.
C38_WaitForToken ==
    /\ []C38_Iterations
    /\ (wpc = "sleeping" /\ wn <= burst_size) ~> (wpc = "idle")

\* the call returned after at least two sleeps
C38_Witness ==
    /\ wpc = "idle"
    /\ lastConsume.valid
    /\ lastConsume.by = "wait_for_token"
    /\ lastConsume.result
    /\ lastConsume.pre.tokens < wn * TokenScale
    /\ lastConsume.pre.last_update > 0
    /\ lastConsume.pre.last_update < lastConsume.time

\* ------------------------------------------------------ cache key claims
\* the keyword arguments of a call as a mapping
C39_KwMap(kw) == {<<kw[i].name, kw[i].value>> : i \in 1..Len(kw)}

\* the two calls have the same prefix, the same positional arguments in the
\* same order, and the same keyword arguments in whatever order
C39_SameCall(a, b) ==
    /\ a.prefix = b.prefix
    /\ a.args = b.args
    /\ C39_KwMap(a.kwargs) = C39_KwMap(b.kwargs)

\* C39: generate_cache_key depends on the prefix, the positional arguments
\* in order and the keyword arguments whatever their order, and two calls
\* that differ in any of them get different keys.
C39_KeyIdentifiesCall ==
    ck.valid => (ck.ka = ck.kb <=> C39_SameCall(ck.a, ck.b))

====
